---- MODULE Spec2Model ----
(***************************************************************************)
(* State-machine model of the openbot orchestration core:                  *)
(*   Orchestrator   (src/src/orchestration/orchestrator.ts)                *)
(*   WorkerRegistry (src/src/orchestration/worker-registry.ts)             *)
(*   TaskRouter     (src/src/orchestration/task-router.ts)                 *)
(*                                                                         *)
(* A Task object lives on the heap and is referenced from the pending      *)
(* queue, the active table and by event observers; the model keeps the     *)
(* objects in `tasks` (indexed by task id, in minting order) and keeps ids *)
(* in `taskQueue` and `activeTasks`.  Both JS Maps (activeTasks, workers)  *)
(* iterate in insertion order, so they are sequences here.                 *)
(* Opaque fields that no code path reads (payload, result, name, endpoint, *)
(* metadata, createdAt, completedAt, durationMs) are left out.             *)
(***************************************************************************)
EXTENDS Integers, Sequences, FiniteSets, TLC

VARIABLES
    now,              \* Date.now(), in abstract time units
    config,           \* Orchestrator.config
    workers,          \* WorkerRegistry.workers (Map, insertion ordered)
    roundRobinIndex,  \* TaskRouter.roundRobinIndex
    taskQueue,        \* Orchestrator.taskQueue (ids)
    activeTasks,      \* Orchestrator.activeTasks (Map keys, insertion ordered)
    taskResults,      \* Orchestrator.taskResults (Map taskId -> TaskResult)
    tasks,            \* the Task objects, tasks[id]
    processingTimer,  \* Orchestrator.processingTimer is non-null
    liveIntervals,    \* number of setInterval timers that still call processQueue
    healthCheckTimer, \* WorkerRegistry.healthCheckTimer is non-null
    emitted,          \* observer calls made by the last operation, in order
    threw,            \* what the last operation threw to its caller ("none": it returned)
    inflight,         \* history: assignments whose worker has not yet posted a result
    breakers,         \* CircuitBreakerRegistry.breakers (Map workerId -> CircuitBreaker)
    options,          \* CircuitBreakerRegistry.options
    lastCall,         \* the breaker-registry call made last and what it returned
    backoff,          \* an ExponentialBackoff: its options and its attempt counter
    delay,            \* what calculateDelay or next returned last, and for which attempt
    retry,            \* a withRetry call: where it stands and what it has done
    observed          \* what the task observers handed to the constructor have recorded

vars ==
    << now, config, workers, roundRobinIndex, taskQueue, activeTasks, taskResults,
       tasks, processingTimer, liveIntervals, healthCheckTimer, emitted, threw,
       inflight, breakers, options, lastCall,
       backoff, delay, retry, observed >>

(***************************************************************************)
(* Bounds of the model.                                                    *)
(***************************************************************************)
MaxTasks == 1
MaxTime == 3
QueueTasks == 2
SubmittedTasks == 4
PairTasks == 2
CapacityTasks == 3
RaceTasks == 1
MaxStarts == 2
RoutingTasks == 1
RobinTasks == 3
SelectionTasks == 1
BreakerTime == 5
MaxRecords == 3
PairTime == 3
PairRecords == 1
MaxExponent == 3
AttemptLimit == 2
ValidationTasks == 2
EventTasks == 1

(***************************************************************************)
(* Domains.                                                                *)
(***************************************************************************)
Undefined == "undefined"
NoTime == 0

WorkerIds == {"w1", "w2"}
TaskTypes == {"chat"}
Priorities == {"critical", "high", "normal", "low"}
Strategies == {"round-robin", "least-loaded", "capability-match", "random"}
WorkerStatuses == {"online", "busy", "degraded", "offline"}

\* The configuration the Orchestrator is constructed with: DEFAULT_CONFIG's
\* strategy, durations scaled to the model's time unit, and the retry budget
\* and queue size of a small deployment.
ModelConfig ==
    [ routingStrategy |-> "least-loaded",
      heartbeatIntervalMs |-> 1,
      missedHeartbeatsThreshold |-> 1,
      defaultTaskTimeoutMs |-> 1,
      defaultMaxRetries |-> 1,
      maxQueueSize |-> 4 ]

Event(kind, task, worker, error) ==
    [kind |-> kind, task |-> task, worker |-> worker, error |-> error]

(***************************************************************************)
(* Sequence helpers.                                                       *)
(***************************************************************************)
Range(s) == {s[i] : i \in 1..Len(s)}

Remove(s, x) == SelectSeq(s, LAMBDA y : y # x)

InsertAt(s, k, x) == SubSeq(s, 1, k - 1) \o <<x>> \o SubSeq(s, k, Len(s))

IndexOf(s, x) == CHOOSE i \in 1..Len(s) : s[i] = x /\ \A j \in 1..(i - 1) : s[j] # x

Min(S) == CHOOSE x \in S : \A y \in S : x <= y

(***************************************************************************)
(* WorkerRegistry                                                          *)
(***************************************************************************)
WorkerPos(ws, id) == {i \in 1..Len(ws) : ws[i].id = id}

HasWorker(ws, id) == WorkerPos(ws, id) # {}

GetWorker(ws, id) == ws[CHOOSE i \in WorkerPos(ws, id) : TRUE]

\* updateWorker: Map.set on an existing key keeps its position
updateWorker(ws, id, updated) ==
    [i \in 1..Len(ws) |-> IF ws[i].id = id THEN updated ELSE ws[i]]

\* mutant: a re-register refreshes the descriptor and the heartbeat but keeps the status
registerKeepingStatus(ws, desc, t) ==
    LET fresh == [ id |-> desc.id, status |-> "online", lastHeartbeat |-> t,
                   capabilities |-> desc.capabilities,
                   currentLoad |-> desc.currentLoad, maxLoad |-> desc.maxLoad ]
    IN  IF HasWorker(ws, desc.id)
        THEN updateWorker(ws, desc.id,
                 [fresh EXCEPT !.status = GetWorker(ws, desc.id).status])
        ELSE Append(ws, fresh)

register(ws, desc, t) ==
    LET fresh == [ id |-> desc.id, status |-> "online", lastHeartbeat |-> t,
                   capabilities |-> desc.capabilities,
                   currentLoad |-> desc.currentLoad, maxLoad |-> desc.maxLoad ]
    IN  IF HasWorker(ws, desc.id) THEN updateWorker(ws, desc.id, fresh)
        ELSE Append(ws, fresh)

unregister(ws, id) == SelectSeq(ws, LAMBDA w : w.id # id)

RECURSIVE SumOver(_, _)
\* workers.reduce((sum, w) => sum + field(w), 0)
SumOver(ws, field) ==
    IF ws = <<>> THEN 0 ELSE ws[1][field] + SumOver(Tail(ws), field)

\* WorkerRegistry.stats
registryStats(ws) ==
    [ total |-> Len(ws),
      online |-> Len(SelectSeq(ws, LAMBDA w : w.status = "online")),
      busy |-> Len(SelectSeq(ws, LAMBDA w : w.status = "busy")),
      degraded |-> Len(SelectSeq(ws, LAMBDA w : w.status = "degraded")),
      offline |-> Len(SelectSeq(ws, LAMBDA w : w.status = "offline")),
      totalCapacity |-> SumOver(ws, "maxLoad"),
      currentLoad |-> SumOver(ws, "currentLoad") ]

\* mutant: a heartbeat from an unknown id registers the worker
heartbeatRegistering(ws, p, t) ==
    LET reported == [ id |-> p.workerId, status |-> p.status,
                      lastHeartbeat |-> t, capabilities |-> p.capabilities,
                      currentLoad |-> p.currentLoad, maxLoad |-> p.maxLoad ]
    IN  IF ~HasWorker(ws, p.workerId) THEN Append(ws, reported)
        ELSE updateWorker(ws, p.workerId, reported)

heartbeat(ws, p, t) ==
    IF ~HasWorker(ws, p.workerId) THEN ws
    ELSE updateWorker(ws, p.workerId,
            [ GetWorker(ws, p.workerId) EXCEPT
                !.status = p.status, !.currentLoad = p.currentLoad,
                !.maxLoad = p.maxLoad, !.capabilities = p.capabilities,
                !.lastHeartbeat = t ])

\* what WorkerRegistry.heartbeat returns: the updated record, or undefined
heartbeatResult(ws, p, t) ==
    IF ~HasWorker(ws, p.workerId) THEN Undefined
    ELSE GetWorker(heartbeat(ws, p, t), p.workerId)

\* mutant: a worker counts as stale one interval later
MaxAgeAndOne(cfg) == cfg.heartbeatIntervalMs * (cfg.missedHeartbeatsThreshold + 1)

MaxAge(cfg) == cfg.heartbeatIntervalMs * cfg.missedHeartbeatsThreshold

checkWorkerHealth(ws, cfg, t) ==
    [i \in 1..Len(ws) |->
        IF ws[i].status # "offline" /\ t - ws[i].lastHeartbeat > MaxAge(cfg)
        THEN [ws[i] EXCEPT !.status = "offline"]
        ELSE ws[i]]

\* an availability test that ignores the load
getAvailableAnyLoad(ws) ==
    SelectSeq(ws, LAMBDA w : w.status \in {"online", "busy"})

getAvailable(ws) ==
    SelectSeq(ws, LAMBDA w : w.status \in {"online", "busy"} /\ w.currentLoad < w.maxLoad)

(***************************************************************************)
(* TaskRouter                                                              *)
(***************************************************************************)
\* a capability filter with no fallback to the available workers
getCapableWorkers(task, ws) ==
    SelectSeq(getAvailable(ws),
              LAMBDA w : w.capabilities = {} \/ task.type \in w.capabilities)

getEligibleWorkers(task, ws) ==
    LET available == getAvailable(ws)
        capable == SelectSeq(available,
                       LAMBDA w : w.capabilities = {} \/ task.type \in w.capabilities)
    IN  IF task.type # "" /\ Len(capable) > 0 THEN capable ELSE available

\* a comparison that lets a later worker of equal ratio replace the best
RatioLessOrEqual(worker, best) ==
    worker.currentLoad * best.maxLoad <= best.currentLoad * worker.maxLoad

\* workerRatio < bestRatio, with ratio = currentLoad / maxLoad and maxLoad > 0
RatioLess(worker, best) ==
    worker.currentLoad * best.maxLoad < best.currentLoad * worker.maxLoad

RECURSIVE ReduceLeastLoaded(_, _)
ReduceLeastLoaded(best, rest) ==
    IF rest = <<>> THEN best
    ELSE ReduceLeastLoaded(IF RatioLess(Head(rest), best) THEN Head(rest) ELSE best,
                           Tail(rest))

selectLeastLoaded(ws) == ReduceLeastLoaded(Head(ws), Tail(ws))

\* a selection that always takes the head of the list
selectHead(ws, rr) == ws[1]

selectRoundRobin(ws, rr) == ws[(rr % Len(ws)) + 1]

\* a capability-match that does not prefer the workers listing the type
selectIgnoringCapability(ws, task) == selectLeastLoaded(ws)

selectByCapability(ws, task) ==
    LET exactMatch == SelectSeq(ws, LAMBDA w : task.type \in w.capabilities)
    IN  IF Len(exactMatch) > 0 THEN selectLeastLoaded(exactMatch)
        ELSE selectLeastLoaded(ws)

\* Math.floor(Math.random() * n), Math.random() = draw / RandomSteps
RandomSteps == Cardinality(WorkerIds)

selectRandom(ws, draw) == ws[((draw * Len(ws)) \div RandomSteps) + 1]

selectWorker(ws, task, strategy, rr, draw) ==
    CASE strategy = "round-robin"      -> selectRoundRobin(ws, rr)
      [] strategy = "least-loaded"     -> selectLeastLoaded(ws)
      [] strategy = "capability-match" -> selectByCapability(ws, task)
      [] strategy = "random"           -> selectRandom(ws, draw)
      [] OTHER                         -> selectLeastLoaded(ws)

\* route: the assignment (worker id and the router's next round-robin index);
\* workerId is Undefined when route returns null
route(task, ws, strategy, rr, draw) ==
    LET eligible == getEligibleWorkers(task, ws)
    IN  IF Len(eligible) = 0 THEN [workerId |-> Undefined, rr |-> rr]
        ELSE [ workerId |-> selectWorker(eligible, task, strategy, rr, draw).id,
               rr |-> IF strategy = "round-robin" THEN (rr + 1) % Len(eligible) ELSE rr ]

(***************************************************************************)
(* Orchestrator: handlers as functions of the handler's running state `st` *)
(*   st.thrown  - an observer has thrown; the handler is unwinding         *)
(*   st.throwAt - which observer call of this operation throws (0: none)   *)
(***************************************************************************)
Emit(st, ev) ==
    LET calls == Append(st.emitted, ev)
    IN  [st EXCEPT !.emitted = calls, !.thrown = (Len(calls) = st.throwAt)]

\* priorityOrder[p] of a p that is not a key of the table: undefined, which
\* compares false with every number
NoOrder == -1

priorityOrder(p) ==
    CASE p = "critical" -> 0
      [] p = "high"     -> 1
      [] p = "normal"   -> 2
      [] p = "low"      -> 3
      [] OTHER          -> NoOrder

\* both operands of the comparison are numbers
Comparable(a, b) == a # NoOrder /\ b # NoOrder

\* an insertion walk that stops at the first task of equal or lower priority
InsertsBeforeOrAtEqual(taskPriority, existingPriority) ==
    Comparable(taskPriority, existingPriority) /\ taskPriority <= existingPriority

\* the test of the insertion walk: taskPriority < existingPriority
InsertsBefore(taskPriority, existingPriority) ==
    Comparable(taskPriority, existingPriority) /\ taskPriority < existingPriority

\* a capacity test that lets the queue grow one past maxQueueSize
QueueIsOverfull(queue, cfg) == Len(queue) > cfg.maxQueueSize

\* an insertion that ignores priorities and appends
insertIndexAtEnd(queue, ts, id) == Len(queue) + 1

insertIndex(queue, ts, id) ==
    LET hits == {i \in 1..Len(queue) :
                    InsertsBefore(priorityOrder(ts[id].priority),
                                  priorityOrder(ts[queue[i]].priority))}
    IN  IF hits = {} THEN Len(queue) + 1 ELSE Min(hits)

\* an insertion that puts the task at the head of the queue
insertAtHead(st, id) == [st EXCEPT !.taskQueue = <<id>> \o @]

insertByPriority(st, id) ==
    [st EXCEPT !.taskQueue = InsertAt(@, insertIndex(@, st.tasks, id), id)]

\* a retry test that also retries when the budget is spent
MayRetryOnceMore(task) == task.retries <= task.maxRetries

\* the retry test: task.retries < task.maxRetries
MayRetry(task) == task.retries < task.maxRetries

\* taskResults.set(result.taskId, result)
StoreResult(results, r) ==
    [id \in DOMAIN results \cup {r.taskId} |-> IF id = r.taskId THEN r ELSE results[id]]

\* a result handler that forgets to take the task out of the active table
activeTasksKeep(active, id) == active

\* this.activeTasks.delete(result.taskId)
activeTasksDelete(active, id) == Remove(active, id)

\* a lookup that finds every task ever submitted
tasksHas(st, id) == id \in 1..Len(st.tasks)

\* this.activeTasks.get(result.taskId) finds the task
activeTasksHas(st, id) == id \in Range(st.activeTasks)

reportTaskResult(st, r) ==
    IF ~activeTasksHas(st, r.taskId) THEN st
    ELSE
      LET id == r.taskId
          task == st.tasks[id]
          moved == [st EXCEPT !.activeTasks = activeTasksDelete(@, id),
                              !.taskResults = StoreResult(@, r)]
      IN  IF r.success
          THEN Emit([moved EXCEPT !.tasks[id].status = "completed"],
                    Event("taskCompleted", id, r.workerId, Undefined))
          ELSE IF MayRetry(task)
          THEN insertByPriority(
                  [moved EXCEPT !.tasks[id] =
                      [@ EXCEPT !.retries = @ + 1, !.status = "pending",
                                !.assignedTo = Undefined, !.assignedAt = NoTime]],
                  id)
          ELSE Emit([moved EXCEPT !.tasks[id] =
                        [@ EXCEPT !.status = "failed", !.error = r.error]],
                    Event("taskFailed", id, Undefined,
                          IF r.error = Undefined THEN "Unknown error" ELSE r.error))

\* a deadline test with the operands of the subtraction swapped
TimedOutBackwards(task, t) ==
    task.assignedAt # NoTime /\ task.assignedAt - t > task.timeoutMs

\* the deadline test of the sweep
TimedOut(task, t) == task.assignedAt # NoTime /\ t - task.assignedAt > task.timeoutMs

TimeoutResult(id, task) ==
    [ taskId |-> id,
      workerId |-> IF task.assignedTo = Undefined THEN "unknown" ELSE task.assignedTo,
      success |-> FALSE,
      error |-> "Task timed out" ]

RECURSIVE SweepFrom(_, _, _)
SweepFrom(st, ids, t) ==
    IF ids = <<>> \/ st.thrown THEN st
    ELSE LET id == Head(ids)
         IN  SweepFrom(IF TimedOut(st.tasks[id], t)
                       THEN reportTaskResult(st, TimeoutResult(id, st.tasks[id]))
                       ELSE st,
                       Tail(ids), t)

checkTimeouts(st, t) == SweepFrom(st, st.activeTasks, t)

\* an assignment that forgets to stamp assignedAt
AssignUnstamped(st, id, workerId, t) ==
    Emit([st EXCEPT !.taskQueue = Remove(@, id),
                    !.tasks[id] = [@ EXCEPT !.status = "assigned",
                                            !.assignedTo = workerId],
                    !.activeTasks = Append(@, id)],
         Event("taskAssigned", id, workerId, Undefined))

\* an assignment that leaves the status of the task as it was
AssignKeepingStatus(st, id, workerId, t) ==
    Emit([st EXCEPT !.taskQueue = Remove(@, id),
                    !.tasks[id] = [@ EXCEPT !.assignedTo = workerId,
                                            !.assignedAt = t],
                    !.activeTasks = Append(@, id)],
         Event("taskAssigned", id, workerId, Undefined))

Assign(st, id, workerId, t) ==
    Emit([st EXCEPT !.taskQueue = Remove(@, id),
                    !.tasks[id] = [@ EXCEPT !.status = "assigned",
                                            !.assignedTo = workerId,
                                            !.assignedAt = t],
                    !.activeTasks = Append(@, id)],
         Event("taskAssigned", id, workerId, Undefined))

RECURSIVE AssignFrom(_, _, _, _, _, _)
AssignFrom(st, pending, ws, strategy, t, draws) ==
    IF pending = <<>> \/ st.thrown THEN st
    ELSE LET id == Head(pending)
             assignment == route(st.tasks[id], ws, strategy, st.roundRobinIndex, draws[id])
             routed == [st EXCEPT !.roundRobinIndex = assignment.rr]
         IN  AssignFrom(IF assignment.workerId = Undefined THEN routed
                        ELSE Assign(routed, id, assignment.workerId, t),
                        Tail(pending), ws, strategy, t, draws)

Reverse(s) == [i \in 1..Len(s) |-> s[Len(s) + 1 - i]]

\* an assignment loop that walks the pending tasks from the tail of the queue
processQueueFromTail(st, ws, strategy, t, draws) ==
    LET swept == checkTimeouts(st, t)
        pendingTasks == SelectSeq(swept.taskQueue,
                            LAMBDA id : swept.tasks[id].status = "pending")
    IN  AssignFrom(swept, Reverse(pendingTasks), ws, strategy, t, draws)

processQueue(st, ws, strategy, t, draws) ==
    LET swept == checkTimeouts(st, t)
        pendingTasks == SelectSeq(swept.taskQueue,
                            LAMBDA id : swept.tasks[id].status = "pending")
    IN  AssignFrom(swept, pendingTasks, ws, strategy, t, draws)

\* an unregisterWorker that puts the departing worker's tasks back in the queue
unregisterWorkerRequeue(st, ws, id) ==
    LET lost == SelectSeq(st.activeTasks, LAMBDA t : st.tasks[t].assignedTo = id)
    IN  [st EXCEPT !.activeTasks = SelectSeq(@, LAMBDA t : st.tasks[t].assignedTo # id),
                   !.taskQueue = @ \o lost,
                   !.tasks = [t \in DOMAIN st.tasks |->
                                IF t \in Range(lost)
                                THEN [st.tasks[t] EXCEPT !.status = "pending",
                                                         !.assignedTo = Undefined,
                                                         !.assignedAt = NoTime]
                                ELSE st.tasks[t]]]

\* unregisterWorker: what it does to the orchestrator (the registry drops the worker)
unregisterWorker(st, ws, id) ==
    IF HasWorker(ws, id) THEN Emit(st, Event("workerOffline", 0, id, Undefined))
    ELSE st

\* submitTask: the new Task object
NewTask(sub, cfg) ==
    [ type |-> sub.type,
      priority |-> IF "priority" \in DOMAIN sub THEN sub.priority ELSE "normal",
      status |-> "pending",
      retries |-> 0,
      maxRetries |-> IF "maxRetries" \in DOMAIN sub THEN sub.maxRetries
                     ELSE cfg.defaultMaxRetries,
      timeoutMs |-> IF "timeoutMs" \in DOMAIN sub THEN sub.timeoutMs
                    ELSE cfg.defaultTaskTimeoutMs,
      assignedTo |-> Undefined,
      assignedAt |-> NoTime,
      error |-> Undefined ]

QueueIsFull(queue, cfg) == Len(queue) >= cfg.maxQueueSize

stats ==
    [ queued |-> Len(taskQueue),
      active |-> Len(activeTasks),
      completed |-> Cardinality({i \in 1..Len(taskQueue) :
                                    tasks[taskQueue[i]].status = "completed"}),
      failed |-> Cardinality({i \in 1..Len(taskQueue) :
                                 tasks[taskQueue[i]].status = "failed"}) ]

(***************************************************************************)
(* The handler's running state, read from and written back to the          *)
(* variables.                                                              *)
(***************************************************************************)
\* the observers an orchestrator is constructed with: none, or observers of the
\* three task events that record each call they receive
NoObservers == [recording |-> FALSE, calls |-> <<>>]
RecordingObservers == [recording |-> TRUE, calls |-> <<>>]

TaskEventKinds == {"taskAssigned", "taskCompleted", "taskFailed"}

\* the observers after the calls an operation made
\* the calls of task observers among the calls an operation made
TaskCalls(calls) == SelectSeq(calls, LAMBDA e : e.kind \in TaskEventKinds)

\* the observers after the calls an operation made
observe(obs, calls) ==
    IF obs.recording
    THEN [obs EXCEPT !.calls = @ \o
            [i \in 1..Len(TaskCalls(calls)) |->
                [kind |-> TaskCalls(calls)[i].kind, task |-> TaskCalls(calls)[i].task]]]
    ELSE obs

Running(throwAt) ==
    [ taskQueue |-> taskQueue, activeTasks |-> activeTasks,
      taskResults |-> taskResults, tasks |-> tasks,
      roundRobinIndex |-> roundRobinIndex,
      emitted |-> <<>>, thrown |-> FALSE, throwAt |-> throwAt ]

Commit(st) ==
    /\ taskQueue' = st.taskQueue
    /\ activeTasks' = st.activeTasks
    /\ taskResults' = st.taskResults
    /\ tasks' = st.tasks
    /\ roundRobinIndex' = st.roundRobinIndex
    /\ emitted' = st.emitted
    /\ observed' = observe(observed, st.emitted)
    /\ threw' = IF st.thrown THEN "observer" ELSE "none"

\* the assignments an operation's taskAssigned events started
Dispatched(st) ==
    {[task |-> st.emitted[i].task, worker |-> st.emitted[i].worker,
      attempt |-> st.tasks[st.emitted[i].task].retries] :
        i \in {j \in 1..Len(st.emitted) : st.emitted[j].kind = "taskAssigned"}}

Quiet == emitted' = <<>> /\ threw' = "none" /\ UNCHANGED observed

OrchestratorUnchanged ==
    UNCHANGED << roundRobinIndex, taskQueue, activeTasks, taskResults, tasks >>

TimersUnchanged == UNCHANGED << processingTimer, liveIntervals, healthCheckTimer >>

(***************************************************************************)
(* CircuitBreaker and CircuitBreakerRegistry                               *)
(* (src/src/orchestration/http-server.ts).                                 *)
(* A breaker is a record of the four private fields; every method is an    *)
(* operator from the breaker, the options and Date.now() to the breaker    *)
(* it leaves.  failureThreshold is a fraction num/den: the code compares   *)
(* failures / records.length with it, and for the thresholds used here     *)
(* (1/2 and 1) the floating-point comparison agrees with the exact one.    *)
(* The log callback (a no-op by default) is left out.                      *)
(***************************************************************************)
CircuitStates == {"closed", "open", "half_open"}

\* CircuitBreaker constructor defaults
DefaultOptions ==
    [ failureThreshold |-> [num |-> 1, den |-> 2], minimumRequests |-> 5,
      windowMs |-> 60000, cooldownMs |-> 30000, successThreshold |-> 3 ]

\* field initialisers of a CircuitBreaker
NewBreaker ==
    [ state |-> "closed", records |-> <<>>, lastFailure |-> NoTime,
      halfOpenSuccesses |-> 0 ]

RequestRecord(t, success) == [timestamp |-> t, success |-> success]

Failures(records) == Len(SelectSeq(records, LAMBDA r : ~r.success))
Successes(records) == Len(SelectSeq(records, LAMBDA r : r.success))

\* CircuitBreaker.pruneOldRecords
pruneOldRecords(b, opts, t) ==
    LET cutoff == t - opts.windowMs
    IN  [b EXCEPT !.records = SelectSeq(@, LAMBDA r : r.timestamp >= cutoff)]

\* CircuitBreaker.transitionTo
transitionTo(b, newState) ==
    IF b.state = newState THEN b
    ELSE [b EXCEPT !.state = newState,
                   !.halfOpenSuccesses = IF newState = "half_open" THEN 0 ELSE @,
                   !.records = IF newState = "closed" THEN <<>> ELSE @]

\* CircuitBreaker.getFailureRate: the breaker it leaves and the rate as a fraction
getFailureRate(b, opts, t) ==
    LET pruned == pruneOldRecords(b, opts, t)
    IN  [ breaker |-> pruned,
          rate |-> IF Len(pruned.records) = 0
                   THEN [num |-> 0, den |-> 1]
                   ELSE [num |-> Failures(pruned.records),
                         den |-> Len(pruned.records)] ]

\* a >= b for fractions with positive denominators
AtLeast(a, b) == a.num * b.den >= b.num * a.den

\* mutant: the circuit opens only when the rate exceeds the threshold
OverThreshold(rate, opts) == ~AtLeast(opts.failureThreshold, rate)

\* failureRate >= this.failureThreshold
ReachesThreshold(rate, opts) == AtLeast(rate, opts.failureThreshold)

\* CircuitBreaker.evaluateState
evaluateState(b, opts, t) ==
    IF Len(b.records) < opts.minimumRequests THEN b
    ELSE LET r == getFailureRate(b, opts, t)
         IN  IF ReachesThreshold(r.rate, opts)
             THEN transitionTo(r.breaker, "open")
             ELSE r.breaker

\* mutant: the cooldown has to be exceeded, not only reached
CooldownExceeded(b, opts, t) == t - b.lastFailure > opts.cooldownMs

\* Date.now() - this.lastFailure >= this.cooldownMs
CooldownPassed(b, opts, t) == t - b.lastFailure >= opts.cooldownMs

\* CircuitBreaker.canExecute: the breaker it leaves and what it returns
canExecute(b, opts, t) ==
    LET pruned == pruneOldRecords(b, opts, t)
    IN  CASE pruned.state = "closed" -> [breaker |-> pruned, result |-> TRUE]
          [] pruned.state = "open" ->
                IF CooldownPassed(pruned, opts, t)
                THEN [breaker |-> transitionTo(pruned, "half_open"), result |-> TRUE]
                ELSE [breaker |-> pruned, result |-> FALSE]
          [] pruned.state = "half_open" -> [breaker |-> pruned, result |-> TRUE]

\* mutant: one success fewer than successThreshold closes the circuit
ProbesAlmostSucceeded(b, opts) == b.halfOpenSuccesses + 1 >= opts.successThreshold

\* this.halfOpenSuccesses >= this.successThreshold
ProbesSucceeded(b, opts) == b.halfOpenSuccesses >= opts.successThreshold

\* CircuitBreaker.recordSuccess
recordSuccess(b, opts, t) ==
    LET pushed == [b EXCEPT !.records = Append(@, RequestRecord(t, TRUE))]
    IN  IF pushed.state = "half_open"
        THEN LET counted == [pushed EXCEPT !.halfOpenSuccesses = @ + 1]
             IN  IF ProbesSucceeded(counted, opts)
                 THEN transitionTo(counted, "closed")
                 ELSE counted
        ELSE pushed

\* CircuitBreaker.recordFailure
recordFailure(b, opts, t) ==
    LET pushed == [b EXCEPT !.records = Append(@, RequestRecord(t, FALSE)),
                            !.lastFailure = t]
    IN  CASE pushed.state = "half_open" -> transitionTo(pushed, "open")
          [] pushed.state = "closed" -> evaluateState(pushed, opts, t)
          [] OTHER -> pushed

\* mutant: reading the statistics also runs the cooldown check
getStatsProbing(b, opts, t) ==
    LET probed == canExecute(b, opts, t).breaker
    IN  [ breaker |-> probed,
          result |-> [ state |-> probed.state,
                       failureRate |-> getFailureRate(probed, opts, t).rate,
                       totalRequests |-> Len(probed.records),
                       failures |-> Failures(probed.records),
                       successes |-> Successes(probed.records) ] ]

\* CircuitBreaker.getStats: the breaker it leaves and what it returns
getStats(b, opts, t) ==
    LET pruned == pruneOldRecords(b, opts, t)
        r == getFailureRate(pruned, opts, t)
    IN  [ breaker |-> r.breaker,
          result |-> [ state |-> pruned.state, failureRate |-> r.rate,
                       totalRequests |-> Len(pruned.records),
                       failures |-> Failures(pruned.records),
                       successes |-> Successes(pruned.records) ] ]

\* CircuitBreaker.reset
reset(b) ==
    transitionTo([b EXCEPT !.records = <<>>, !.halfOpenSuccesses = 0], "closed")

\* CircuitBreakerRegistry.get: the breakers map after the lookup
get(map, workerId) ==
    IF workerId \in DOMAIN map THEN map ELSE (workerId :> NewBreaker) @@ map

\* the registry call made last and what it returned
Call(op, workerId, result) == [op |-> op, id |-> workerId, result |-> result]
NoCall == Call("none", Undefined, Undefined)

\* new CircuitBreakerRegistry(opts)
NewRegistry(opts) ==
    /\ breakers = <<>>
    /\ options = opts
    /\ lastCall = NoCall

BreakersUnchanged == UNCHANGED << breakers, options, lastCall >>

(***************************************************************************)
(* ExponentialBackoff and withRetry (src/src/orchestration/task-router.ts).*)
(* The options are JS numbers; baseDelayMs and maxDelayMs are held here in *)
(* quarters of a millisecond, so that options that are not whole numbers   *)
(* and Math.round are exact.  jitter is a fraction num/den.  What          *)
(* calculateDelay and next return is in whole milliseconds.                *)
(***************************************************************************)
\* n milliseconds, in quarters
Ms(n) == 4 * n

RECURSIVE Pow2(_)
\* Math.pow(2, attempt) for a whole attempt >= 0
Pow2(n) == IF n = 0 THEN 1 ELSE 2 * Pow2(n - 1)

\* mutant: the delay is truncated to whole milliseconds
Trunc(q) == q \div 4

\* Math.round of q quarters: the nearest whole number, ties upwards
Round(q) == (q + 2) \div 4

\* BackoffOptions after the constructor's defaults
DefaultBackoffOptions ==
    [ baseDelayMs |-> Ms(1000), maxDelayMs |-> Ms(30000),
      jitter |-> [num |-> 1, den |-> 10], maxAttempts |-> 5 ]

\* new ExponentialBackoff(opts)
NewBackoff(opts) == [options |-> opts, attempt |-> 0]

\* ExponentialBackoff.calculateDelay, u being Math.random() * 2 - 1
calculateDelay(bo, attempt, u) ==
    LET exponentialDelay == bo.options.baseDelayMs * Pow2(attempt)
        cappedDelay == IF exponentialDelay <= bo.options.maxDelayMs
                       THEN exponentialDelay ELSE bo.options.maxDelayMs
        jitterRange == (cappedDelay * bo.options.jitter.num) \div bo.options.jitter.den
        jitterOffset == u * jitterRange
    IN  Round(cappedDelay + jitterOffset)

\* mutant: the attempt budget is one smaller
AttemptsAlmostExhausted(bo) == bo.attempt + 1 >= bo.options.maxAttempts

\* this.attempt >= this.maxAttempts
AttemptsExhausted(bo) == bo.attempt >= bo.options.maxAttempts

\* the null that next returns; every delay is a number >= 0
Null == -1

\* ExponentialBackoff.next: the backoff it leaves and the delay, or null
next(bo, u) ==
    IF AttemptsExhausted(bo)
    THEN [backoff |-> bo, delay |-> Null]
    ELSE [backoff |-> [bo EXCEPT !.attempt = @ + 1],
          delay |-> calculateDelay(bo, bo.attempt, u)]

\* ExponentialBackoff.reset
resetBackoff(bo) == [bo EXCEPT !.attempt = 0]

\* nothing returned yet by calculateDelay or next
NoDelay == [attempt |-> Null, value |-> Null]

\* a withRetry call: its options, where it stands and what it has done
NewRun(shouldRetry) ==
    [ pc |-> "idle", shouldRetry |-> shouldRetry, calls |-> 0, retried |-> <<>>,
      lastError |-> Undefined, outcome |-> Undefined ]

\* no ExponentialBackoff beyond a default one, no withRetry call
NoBackoff ==
    /\ backoff = NewBackoff(DefaultBackoffOptions)
    /\ delay = NoDelay
    /\ retry = NewRun({})

BackoffUnchanged == UNCHANGED << backoff, delay, retry >>

(***************************************************************************)
(* Operations.                                                             *)
(***************************************************************************)
Init ==
    /\ now = 1
    /\ config = ModelConfig
    /\ workers = <<>>
    /\ roundRobinIndex = 0
    /\ taskQueue = <<>>
    /\ activeTasks = <<>>
    /\ taskResults = <<>>
    /\ tasks = <<>>
    /\ processingTimer = FALSE
    /\ liveIntervals = 0
    /\ healthCheckTimer = FALSE
    /\ emitted = <<>>
    /\ observed = NoObservers
    /\ threw = "none"
    /\ inflight = {}
    /\ NewRegistry(DefaultOptions)
    /\ NoBackoff

\* time passes
Advance ==
    /\ now < MaxTime
    /\ now' = now + 1
    /\ UNCHANGED << config, workers, roundRobinIndex, taskQueue, activeTasks,
                    taskResults, tasks, processingTimer, liveIntervals,
                    healthCheckTimer, emitted, threw, inflight, observed >>
    /\ BreakersUnchanged
    /\ BackoffUnchanged

\* Orchestrator.start
Start ==
    /\ healthCheckTimer' = TRUE
    /\ processingTimer' = TRUE
    /\ liveIntervals' = liveIntervals + 1
    /\ Quiet
    /\ OrchestratorUnchanged
    /\ UNCHANGED << now, config, workers, inflight >>
    /\ BreakersUnchanged
    /\ BackoffUnchanged

\* Orchestrator.stop
Stop ==
    /\ healthCheckTimer' = FALSE
    /\ processingTimer' = FALSE
    /\ liveIntervals' = IF processingTimer THEN liveIntervals - 1 ELSE liveIntervals
    /\ Quiet
    /\ OrchestratorUnchanged
    /\ UNCHANGED << now, config, workers, inflight >>
    /\ BreakersUnchanged
    /\ BackoffUnchanged

\* Orchestrator.registerWorker
RegisterWorker(desc, throwAt) ==
    LET st == Emit(Running(throwAt), Event("workerOnline", 0, desc.id, Undefined))
    IN  /\ workers' = register(workers, desc, now)
        /\ Commit(st)
        /\ TimersUnchanged
        /\ UNCHANGED << now, config, inflight >>
        /\ BreakersUnchanged
        /\ BackoffUnchanged

\* Orchestrator.unregisterWorker
UnregisterWorker(id, throwAt) ==
    LET st == unregisterWorker(Running(throwAt), workers, id)
    IN  /\ workers' = unregister(workers, id)
        /\ Commit(st)
        /\ TimersUnchanged
        /\ UNCHANGED << now, config, inflight >>
        /\ BreakersUnchanged
        /\ BackoffUnchanged

\* Orchestrator.heartbeat
Heartbeat(p) ==
    /\ workers' = heartbeat(workers, p, now)
    /\ Quiet
    /\ OrchestratorUnchanged
    /\ TimersUnchanged
    /\ UNCHANGED << now, config, inflight >>
    /\ BreakersUnchanged
    /\ BackoffUnchanged

\* the registry's health-check interval fires
CheckWorkerHealth ==
    /\ healthCheckTimer
    /\ workers' = checkWorkerHealth(workers, config, now)
    /\ Quiet
    /\ OrchestratorUnchanged
    /\ TimersUnchanged
    /\ UNCHANGED << now, config, inflight >>
    /\ BreakersUnchanged
    /\ BackoffUnchanged

\* Orchestrator.submitTask
SubmitTask(sub) ==
    /\ IF QueueIsFull(taskQueue, config)
       THEN /\ threw' = "Task queue is full"
            /\ emitted' = <<>>
            /\ UNCHANGED observed
            /\ OrchestratorUnchanged
       ELSE LET id == Len(tasks) + 1
                st == [Running(0) EXCEPT !.tasks = Append(@, NewTask(sub, config))]
            IN  Commit(insertByPriority(st, id))
    /\ TimersUnchanged
    /\ UNCHANGED << now, config, workers, inflight >>
    /\ BreakersUnchanged
    /\ BackoffUnchanged

\* OrchestratorHttpServer.handleTaskSubmit (POST /tasks) with a parsed body;
\* threw is the error of the 400 answer, "none" for a 200
HandleTaskSubmit(body) ==
    IF body.type = ""
    THEN /\ threw' = "Missing required field: type"
         /\ emitted' = <<>>
         /\ UNCHANGED observed
         /\ OrchestratorUnchanged
         /\ TimersUnchanged
         /\ UNCHANGED << now, config, workers, inflight >>
         /\ BreakersUnchanged
         /\ BackoffUnchanged
    ELSE SubmitTask([ type |-> body.type,
                      priority |-> IF "priority" \in DOMAIN body
                                   THEN body.priority ELSE "normal" ])

\* Orchestrator.reportTaskResult, called with any result
ReportTaskResult(r, throwAt) ==
    /\ Commit(reportTaskResult(Running(throwAt), r))
    /\ TimersUnchanged
    /\ UNCHANGED << now, config, workers, inflight >>
    /\ BreakersUnchanged
    /\ BackoffUnchanged

\* what processQueue does in the current state
TickOutcome(throwAt, draws) ==
    processQueue(Running(throwAt), workers, config.routingStrategy, now, draws)

\* a processQueue interval fires
Tick(throwAt, draws) ==
    /\ liveIntervals > 0
    /\ Commit(TickOutcome(throwAt, draws))
    /\ TimersUnchanged
    /\ UNCHANGED << now, config, workers, inflight >>
    /\ BreakersUnchanged
    /\ BackoffUnchanged

\* a processQueue interval fires; each worker it assigns a task to starts on it
DispatchingTick(throwAt, draws) ==
    /\ liveIntervals > 0
    /\ Commit(TickOutcome(throwAt, draws))
    /\ inflight' = inflight \cup Dispatched(TickOutcome(throwAt, draws))
    /\ TimersUnchanged
    /\ UNCHANGED << now, config, workers >>
    /\ BreakersUnchanged
    /\ BackoffUnchanged

\* a worker posts the result of an assignment it was given
WorkerResult(m, success) ==
    /\ m \in inflight
    /\ Commit(reportTaskResult(Running(0),
                  [ taskId |-> m.task, workerId |-> m.worker, success |-> success,
                    error |-> IF success THEN Undefined ELSE "boom" ]))
    /\ inflight' = inflight \ {m}
    /\ TimersUnchanged
    /\ UNCHANGED << now, config, workers >>
    /\ BreakersUnchanged
    /\ BackoffUnchanged

(***************************************************************************)
(* Operations of the CircuitBreakerRegistry.                               *)
(***************************************************************************)
OrchestratorIdle ==
    /\ OrchestratorUnchanged
    /\ TimersUnchanged
    /\ UNCHANGED << config, workers, emitted, threw, inflight, observed >>

\* time passes between two registry calls
BreakerAdvance ==
    /\ now < BreakerTime
    /\ now' = now + 1
    /\ lastCall' = NoCall
    /\ OrchestratorIdle
    /\ BackoffUnchanged
    /\ UNCHANGED << breakers, options >>

\* CircuitBreakerRegistry.get
Get(workerId) ==
    /\ breakers' = get(breakers, workerId)
    /\ lastCall' = Call("get", workerId, Undefined)
    /\ OrchestratorIdle
    /\ BackoffUnchanged
    /\ UNCHANGED << now, options >>

\* CircuitBreakerRegistry.isAvailable
IsAvailable(workerId) ==
    LET map == get(breakers, workerId)
        r == canExecute(map[workerId], options, now)
    IN  /\ breakers' = [map EXCEPT ![workerId] = r.breaker]
        /\ lastCall' = Call("isAvailable", workerId, r.result)
        /\ OrchestratorIdle
        /\ BackoffUnchanged
        /\ UNCHANGED << now, options >>

\* CircuitBreakerRegistry.recordSuccess
RecordSuccess(workerId) ==
    LET map == get(breakers, workerId)
    IN  /\ breakers' = [map EXCEPT ![workerId] = recordSuccess(@, options, now)]
        /\ lastCall' = Call("recordSuccess", workerId, Undefined)
        /\ OrchestratorIdle
        /\ BackoffUnchanged
        /\ UNCHANGED << now, options >>

\* CircuitBreakerRegistry.recordFailure
RecordFailure(workerId) ==
    LET map == get(breakers, workerId)
    IN  /\ breakers' = [map EXCEPT ![workerId] = recordFailure(@, options, now)]
        /\ lastCall' = Call("recordFailure", workerId, Undefined)
        /\ OrchestratorIdle
        /\ BackoffUnchanged
        /\ UNCHANGED << now, options >>

\* CircuitBreakerRegistry.getAllStats
GetAllStats ==
    /\ breakers' = [id \in DOMAIN breakers |->
                        getStats(breakers[id], options, now).breaker]
    /\ lastCall' = Call("getAllStats", Undefined,
                        [id \in DOMAIN breakers |->
                            getStats(breakers[id], options, now).result])
    /\ OrchestratorIdle
    /\ BackoffUnchanged
    /\ UNCHANGED << now, options >>

\* CircuitBreakerRegistry.getOpenCircuits
GetOpenCircuits ==
    /\ lastCall' = Call("getOpenCircuits", Undefined,
                        {id \in DOMAIN breakers : breakers[id].state = "open"})
    /\ OrchestratorIdle
    /\ BackoffUnchanged
    /\ UNCHANGED << now, options, breakers >>

\* CircuitBreakerRegistry.reset
Reset(workerId) ==
    LET map == get(breakers, workerId)
    IN  /\ breakers' = [map EXCEPT ![workerId] = reset(@)]
        /\ lastCall' = Call("reset", workerId, Undefined)
        /\ OrchestratorIdle
        /\ BackoffUnchanged
        /\ UNCHANGED << now, options >>

\* CircuitBreakerRegistry.resetAll
ResetAll ==
    /\ breakers' = [id \in DOMAIN breakers |-> reset(breakers[id])]
    /\ lastCall' = Call("resetAll", Undefined, Undefined)
    /\ OrchestratorIdle
    /\ BackoffUnchanged
    /\ UNCHANGED << now, options >>

(***************************************************************************)
(* Operations of ExponentialBackoff, and the steps of withRetry.           *)
(***************************************************************************)
BackoffOnly ==
    /\ OrchestratorIdle
    /\ BreakersUnchanged
    /\ UNCHANGED now

\* ExponentialBackoff.calculateDelay(attempt)
CalculateDelay(attempt, u) ==
    /\ delay' = [attempt |-> attempt, value |-> calculateDelay(backoff, attempt, u)]
    /\ UNCHANGED << backoff, retry >>
    /\ BackoffOnly

\* ExponentialBackoff.next()
NextDelay(u) ==
    /\ backoff' = next(backoff, u).backoff
    /\ delay' = [attempt |-> backoff.attempt, value |-> next(backoff, u).delay]
    /\ UNCHANGED retry
    /\ BackoffOnly

\* ExponentialBackoff.reset()
ResetBackoff ==
    /\ backoff' = resetBackoff(backoff)
    /\ UNCHANGED << delay, retry >>
    /\ BackoffOnly

\* withRetry(fn, options) is called: it builds its backoff and calls fn
WithRetry ==
    /\ retry.pc = "idle"
    /\ retry' = [retry EXCEPT !.pc = "calling"]
    /\ backoff' = NewBackoff(backoff.options)
    /\ UNCHANGED delay
    /\ BackoffOnly

\* fn resolves with a value
FnResolves(value) ==
    /\ retry.pc = "calling"
    /\ retry' = [retry EXCEPT !.calls = @ + 1, !.pc = "returned", !.outcome = value]
    /\ UNCHANGED << backoff, delay >>
    /\ BackoffOnly

\* fn rejects with an error: the catch block of withRetry
FnRejects(error, u) ==
    /\ retry.pc = "calling"
    /\ LET called == [retry EXCEPT !.calls = @ + 1, !.lastError = error]
           n == next(backoff, u)
       IN  IF error \notin retry.shouldRetry
           THEN /\ retry' = [called EXCEPT !.pc = "thrown", !.outcome = error]
                /\ UNCHANGED << backoff, delay >>
           ELSE /\ backoff' = n.backoff
                /\ delay' = [attempt |-> backoff.attempt, value |-> n.delay]
                /\ retry' =
                     IF n.delay = Null
                     THEN [called EXCEPT !.pc = "thrown", !.outcome = error]
                     ELSE [called EXCEPT
                             !.pc = "sleeping",
                             !.retried = Append(@, [ attempt |-> n.backoff.attempt,
                                                     delay |-> n.delay,
                                                     error |-> error,
                                                     calls |-> called.calls ])]
    /\ BackoffOnly

\* the setTimeout of withRetry fires: fn is called again
RetryTimerFires ==
    /\ retry.pc = "sleeping"
    /\ retry' = [retry EXCEPT !.pc = "calling"]
    /\ UNCHANGED << backoff, delay >>
    /\ BackoffOnly

(***************************************************************************)
(* Where a task is.                                                        *)
(***************************************************************************)
TaskIds == 1..Len(tasks)

InQueue(id) == id \in Range(taskQueue)

InActive(id) == id \in Range(activeTasks)

HasResult(id) == id \in DOMAIN taskResults

Count(b) == IF b THEN 1 ELSE 0

(***************************************************************************)
(* Inputs.                                                                 *)
(***************************************************************************)
ResultsFor(ids, workerIds) ==
    [taskId : ids, workerId : workerIds, success : {TRUE}, error : {Undefined}]
    \cup [taskId : ids, workerId : workerIds, success : {FALSE}, error : {"boom"}]

NoDraws(n) == [id \in 1..n |-> 0]

Draws(strategy, n) ==
    IF strategy = "random" THEN [1..n -> 0..(RandomSteps - 1)] ELSE {NoDraws(n)}

\* an observer that never throws (0), or throws at its k-th call of the operation
Throws(n) == 0..n

(***************************************************************************)
(* Spec: the task lifecycle against the clock, with one worker.            *)
(***************************************************************************)
Submissions ==
    [type : TaskTypes]
    \cup [type : TaskTypes, priority : {"high"}, maxRetries : {0}]

Descriptors ==
    { [id |-> "w1", capabilities |-> {"chat"}, currentLoad |-> 0, maxLoad |-> 1] }

HeartbeatPayloads ==
    [workerId : {"w1"}, status : {"online"}, currentLoad : {0, 1},
     maxLoad : {1}, capabilities : {{"chat"}}]

\* start() called on an orchestrator that is not running
StartOnce == ~processingTimer /\ Start

Next ==
    \/ Advance
    \/ StartOnce
    \/ \E desc \in Descriptors, k \in Throws(1) : RegisterWorker(desc, k)
    \/ \E k \in Throws(1) : UnregisterWorker("w1", k)
    \/ \E p \in HeartbeatPayloads : Heartbeat(p)
    \/ CheckWorkerHealth
    \/ \E sub \in Submissions : Len(tasks) < MaxTasks /\ SubmitTask(sub)
    \/ \E r \in ResultsFor(1..MaxTasks, {"w1"}), k \in Throws(1) : ReportTaskResult(r, k)
    \/ \E k \in Throws(MaxTasks), draws \in Draws(config.routingStrategy, MaxTasks) :
          Tick(k, draws)

Spec == Init /\ [][Next]_vars

(***************************************************************************)
(* SpecQueue: the pending queue under all four priorities; the clock       *)
(* stands still, so no assignment times out.                               *)
(***************************************************************************)
PrioritySubmissions == [type : TaskTypes, priority : Priorities]

NextQueue ==
    \/ StartOnce
    \/ \E desc \in Descriptors, k \in Throws(1) : RegisterWorker(desc, k)
    \/ \E sub \in PrioritySubmissions : Len(tasks) < QueueTasks /\ SubmitTask(sub)
    \/ \E r \in ResultsFor(1..QueueTasks, {"w1"}), k \in Throws(1) : ReportTaskResult(r, k)
    \/ \E k \in Throws(QueueTasks), draws \in Draws(config.routingStrategy, QueueTasks) :
          Tick(k, draws)

SpecQueue == Init /\ [][NextQueue]_vars

(***************************************************************************)
(* SpecSubmit: submissions only, the queue as insertByPriority builds it.  *)
(***************************************************************************)
NextSubmit ==
    \E sub \in PrioritySubmissions \cup [type : TaskTypes] :
        Len(tasks) < SubmittedTasks /\ SubmitTask(sub)

SpecSubmit == Init /\ [][NextSubmit]_vars

(***************************************************************************)
(* SpecObservers: two tasks against the clock, with observers that may     *)
(* throw at any of their calls.                                            *)
(***************************************************************************)
NextObservers ==
    \/ Advance
    \/ StartOnce
    \/ \E desc \in Descriptors, k \in Throws(1) : RegisterWorker(desc, k)
    \/ \E sub \in Submissions : Len(tasks) < PairTasks /\ SubmitTask(sub)
    \/ \E r \in ResultsFor(1..PairTasks, {"w1"}), k \in Throws(1) : ReportTaskResult(r, k)
    \/ \E k \in Throws(PairTasks), draws \in Draws(config.routingStrategy, PairTasks) :
          Tick(k, draws)

SpecObservers == Init /\ [][NextObservers]_vars

(***************************************************************************)
(* SpecRace: the workers' own results, each posted once for the assignment *)
(* it belongs to, at any time after the assignment, and results posted by  *)
(* any other caller for a task id that is not active.                      *)
(***************************************************************************)
Assignments == [task : 1..RaceTasks, worker : WorkerIds, attempt : 0..1]

NextRace ==
    \/ Advance
    \/ StartOnce
    \/ \E desc \in Descriptors : RegisterWorker(desc, 0)
    \/ \E sub \in Submissions : Len(tasks) < RaceTasks /\ SubmitTask(sub)
    \/ \E m \in Assignments, success \in BOOLEAN : WorkerResult(m, success)
    \/ \E r \in ResultsFor(1..RaceTasks, {"w1"}) :
          ~InActive(r.taskId) /\ ReportTaskResult(r, 0)
    \/ \E draws \in Draws(config.routingStrategy, RaceTasks) : DispatchingTick(0, draws)

SpecRace == Init /\ [][NextRace]_vars

(***************************************************************************)
(* SpecCapacity: an orchestrator constructed with maxQueueSize 2; tasks    *)
(* leave the pending queue by assignment and come back by retry.           *)
(***************************************************************************)
SmallQueueConfig == [ModelConfig EXCEPT !.maxQueueSize = 2]

InitSmallQueue ==
    /\ now = 1
    /\ config = SmallQueueConfig
    /\ workers = <<>>
    /\ roundRobinIndex = 0
    /\ taskQueue = <<>>
    /\ activeTasks = <<>>
    /\ taskResults = <<>>
    /\ tasks = <<>>
    /\ processingTimer = FALSE
    /\ liveIntervals = 0
    /\ healthCheckTimer = FALSE
    /\ emitted = <<>>
    /\ observed = NoObservers
    /\ threw = "none"
    /\ inflight = {}
    /\ NewRegistry(DefaultOptions)
    /\ NoBackoff

NextCapacity ==
    \/ StartOnce
    \/ \E desc \in Descriptors : RegisterWorker(desc, 0)
    \/ \E sub \in Submissions :
          (Len(tasks) < CapacityTasks \/ QueueIsFull(taskQueue, config)) /\ SubmitTask(sub)
    \/ \E r \in ResultsFor(1..CapacityTasks, {"w1"}) : ReportTaskResult(r, 0)
    \/ \E draws \in Draws(config.routingStrategy, CapacityTasks) : Tick(0, draws)

SpecCapacity == InitSmallQueue /\ [][NextCapacity]_vars

(***************************************************************************)
(* SpecTimers: start() and stop() called in any order, any number of times *)
(* (at most MaxStarts intervals alive at once).                            *)
(***************************************************************************)
NextTimers ==
    \/ Advance
    \/ liveIntervals < MaxStarts /\ Start
    \/ Stop
    \/ \E desc \in Descriptors : RegisterWorker(desc, 0)
    \/ CheckWorkerHealth
    \/ \E sub \in Submissions : Len(tasks) < MaxTasks /\ SubmitTask(sub)
    \/ \E draws \in Draws(config.routingStrategy, MaxTasks) : Tick(0, draws)

SpecTimers == Init /\ [][NextTimers]_vars

(***************************************************************************)
(* SpecRouting: two workers whose status, load and capabilities vary, tasks *)
(* of two types, and an orchestrator constructed with any of the routing   *)
(* strategies.  The clock stands still.                                    *)
(***************************************************************************)
RoutingTypes == {"chat", "code"}

RoutingSubmissions == [type : RoutingTypes]

RoutingDescriptors ==
    { [id |-> "w1", capabilities |-> {"chat"}, currentLoad |-> 0, maxLoad |-> 2] }
    \cup [id : {"w2"}, capabilities : {{}, {"code"}}, currentLoad : {0}, maxLoad : {2}]

\* a worker reports its status and load; its capabilities are those it has
RoutingHeartbeats ==
    {[workerId |-> w.id, status |-> status, currentLoad |-> load,
      maxLoad |-> w.maxLoad, capabilities |-> w.capabilities] :
        w \in Range(workers), status \in WorkerStatuses, load \in 0..2}

InitRouting ==
    /\ now = 1
    /\ config \in {[ModelConfig EXCEPT !.routingStrategy = strategy] : strategy \in Strategies}
    /\ workers = <<>>
    /\ roundRobinIndex = 0
    /\ taskQueue = <<>>
    /\ activeTasks = <<>>
    /\ taskResults = <<>>
    /\ tasks = <<>>
    /\ processingTimer = FALSE
    /\ liveIntervals = 0
    /\ healthCheckTimer = FALSE
    /\ emitted = <<>>
    /\ observed = NoObservers
    /\ threw = "none"
    /\ inflight = {}
    /\ NewRegistry(DefaultOptions)
    /\ NoBackoff

NextRouting ==
    \/ StartOnce
    \/ \E desc \in RoutingDescriptors : RegisterWorker(desc, 0)
    \/ \E p \in RoutingHeartbeats : Heartbeat(p)
    \/ \E sub \in RoutingSubmissions : Len(tasks) < RoutingTasks /\ SubmitTask(sub)
    \/ \E draws \in Draws(config.routingStrategy, RoutingTasks) : Tick(0, draws)

SpecRouting == InitRouting /\ [][NextRouting]_vars

(***************************************************************************)
(* SpecRoundRobin: an orchestrator constructed with the round-robin        *)
(* strategy; two workers that come, fill up and free up again.             *)
(***************************************************************************)
RobinDescriptors ==
    [id : WorkerIds, capabilities : {{"chat"}}, currentLoad : {0}, maxLoad : {1}]

RobinHeartbeats ==
    [workerId : WorkerIds, status : {"online"}, currentLoad : {0, 1},
     maxLoad : {1}, capabilities : {{"chat"}}]

InitRoundRobin ==
    /\ now = 1
    /\ config = [ModelConfig EXCEPT !.routingStrategy = "round-robin"]
    /\ workers = <<>>
    /\ roundRobinIndex = 0
    /\ taskQueue = <<>>
    /\ activeTasks = <<>>
    /\ taskResults = <<>>
    /\ tasks = <<>>
    /\ processingTimer = FALSE
    /\ liveIntervals = 0
    /\ healthCheckTimer = FALSE
    /\ emitted = <<>>
    /\ observed = NoObservers
    /\ threw = "none"
    /\ inflight = {}
    /\ NewRegistry(DefaultOptions)
    /\ NoBackoff

NextRoundRobin ==
    \/ StartOnce
    \/ \E desc \in RobinDescriptors : RegisterWorker(desc, 0)
    \/ \E p \in RobinHeartbeats : Heartbeat(p)
    \/ \E sub \in [type : TaskTypes] : Len(tasks) < RobinTasks /\ SubmitTask(sub)
    \/ \E draws \in Draws(config.routingStrategy, RobinTasks) : Tick(0, draws)

SpecRoundRobin == InitRoundRobin /\ [][NextRoundRobin]_vars

(***************************************************************************)
(* SpecSelection: three workers of different capacity, two of them listing *)
(* "chat" and one listing nothing, under the least-loaded and the          *)
(* capability-match strategy.  The clock stands still.                     *)
(***************************************************************************)
SelectionDescriptors ==
    { [id |-> "w1", capabilities |-> {"chat"}, currentLoad |-> 0, maxLoad |-> 2],
      [id |-> "w2", capabilities |-> {}, currentLoad |-> 0, maxLoad |-> 3],
      [id |-> "w3", capabilities |-> {"chat"}, currentLoad |-> 0, maxLoad |-> 2] }

SelectionHeartbeats ==
    {[workerId |-> w.id, status |-> "online", currentLoad |-> load,
      maxLoad |-> w.maxLoad, capabilities |-> w.capabilities] :
        w \in Range(workers), load \in 0..2}

InitSelection ==
    /\ now = 1
    /\ config \in {[ModelConfig EXCEPT !.routingStrategy = strategy] :
                      strategy \in {"least-loaded", "capability-match"}}
    /\ workers = <<>>
    /\ roundRobinIndex = 0
    /\ taskQueue = <<>>
    /\ activeTasks = <<>>
    /\ taskResults = <<>>
    /\ tasks = <<>>
    /\ processingTimer = FALSE
    /\ liveIntervals = 0
    /\ healthCheckTimer = FALSE
    /\ emitted = <<>>
    /\ observed = NoObservers
    /\ threw = "none"
    /\ inflight = {}
    /\ NewRegistry(DefaultOptions)
    /\ NoBackoff

NextSelection ==
    \/ StartOnce
    \/ \E desc \in SelectionDescriptors : RegisterWorker(desc, 0)
    \/ \E p \in SelectionHeartbeats : Heartbeat(p)
    \/ \E sub \in RoutingSubmissions : Len(tasks) < SelectionTasks /\ SubmitTask(sub)
    \/ \E draws \in Draws(config.routingStrategy, SelectionTasks) : Tick(0, draws)

SpecSelection == InitSelection /\ [][NextSelection]_vars

(***************************************************************************)
(* SpecBreaker: one circuit breaker against the clock.                     *)
(***************************************************************************)
BreakerOptionSets ==
    { [ failureThreshold |-> [num |-> 1, den |-> 2], minimumRequests |-> 2,
        windowMs |-> 2, cooldownMs |-> 1, successThreshold |-> 2 ],
      [ failureThreshold |-> [num |-> 1, den |-> 1], minimumRequests |-> 1,
        windowMs |-> 1, cooldownMs |-> 2, successThreshold |-> 1 ] }

\* an orchestrator as constructed, beside a breaker registry built with any of the options
InitBreaker ==
    /\ now = 1
    /\ config = ModelConfig
    /\ workers = <<>>
    /\ roundRobinIndex = 0
    /\ taskQueue = <<>>
    /\ activeTasks = <<>>
    /\ taskResults = <<>>
    /\ tasks = <<>>
    /\ processingTimer = FALSE
    /\ liveIntervals = 0
    /\ healthCheckTimer = FALSE
    /\ emitted = <<>>
    /\ observed = NoObservers
    /\ threw = "none"
    /\ inflight = {}
    /\ \E opts \in BreakerOptionSets : NewRegistry(opts)
    /\ NoBackoff

\* the samples a breaker holds, none before it is created
RecordsOf(workerId) ==
    IF workerId \in DOMAIN breakers THEN breakers[workerId].records ELSE <<>>

NextBreaker ==
    \/ BreakerAdvance
    \/ Get("w1")
    \/ IsAvailable("w1")
    \/ Len(RecordsOf("w1")) < MaxRecords /\ RecordSuccess("w1")
    \/ Len(RecordsOf("w1")) < MaxRecords /\ RecordFailure("w1")
    \/ GetAllStats
    \/ GetOpenCircuits
    \/ Reset("w1")
    \/ ResetAll

SpecBreaker == InitBreaker /\ [][NextBreaker]_vars

(***************************************************************************)
(* SpecBreakerPair: a registry holding two breakers.                       *)
(***************************************************************************)
PairOptions ==
    [ failureThreshold |-> [num |-> 1, den |-> 2], minimumRequests |-> 1,
      windowMs |-> 1, cooldownMs |-> 1, successThreshold |-> 1 ]

InitBreakerPair ==
    /\ now = 1
    /\ config = ModelConfig
    /\ workers = <<>>
    /\ roundRobinIndex = 0
    /\ taskQueue = <<>>
    /\ activeTasks = <<>>
    /\ taskResults = <<>>
    /\ tasks = <<>>
    /\ processingTimer = FALSE
    /\ liveIntervals = 0
    /\ healthCheckTimer = FALSE
    /\ emitted = <<>>
    /\ observed = NoObservers
    /\ threw = "none"
    /\ inflight = {}
    /\ NewRegistry(PairOptions)
    /\ NoBackoff

\* time passes, within the horizon of the two-breaker runs
PairAdvance == now < PairTime /\ BreakerAdvance

NextBreakerPair ==
    \/ PairAdvance
    \/ \E id \in WorkerIds : Get(id)
    \/ \E id \in WorkerIds : IsAvailable(id)
    \/ \E id \in WorkerIds : Len(RecordsOf(id)) < PairRecords /\ RecordSuccess(id)
    \/ \E id \in WorkerIds : Len(RecordsOf(id)) < PairRecords /\ RecordFailure(id)
    \/ GetAllStats
    \/ GetOpenCircuits
    \/ \E id \in WorkerIds : Reset(id)
    \/ ResetAll

SpecBreakerPair == InitBreakerPair /\ [][NextBreakerPair]_vars

(***************************************************************************)
(* SpecBackoff: calculateDelay, next and reset of one ExponentialBackoff.  *)
(***************************************************************************)
Jitters == {[num |-> 0, den |-> 1], [num |-> 1, den |-> 2]}

\* baseDelayMs 0.5, 1, 1.5 and 2 ms; maxDelayMs 2.5, 3 and 4 ms
BackoffOptionSets ==
    [ baseDelayMs : {2, Ms(1), 6, Ms(2)}, maxDelayMs : {10, Ms(3), Ms(4)},
      jitter : Jitters, maxAttempts : 1..AttemptLimit ]

\* Math.random() * 2 - 1, at the low end and in the middle of [-1, 1)
RandomOffsets == {-1, 0}

\* an orchestrator as constructed, beside one ExponentialBackoff with any of the options
InitBackoff ==
    /\ now = 1
    /\ config = ModelConfig
    /\ workers = <<>>
    /\ roundRobinIndex = 0
    /\ taskQueue = <<>>
    /\ activeTasks = <<>>
    /\ taskResults = <<>>
    /\ tasks = <<>>
    /\ processingTimer = FALSE
    /\ liveIntervals = 0
    /\ healthCheckTimer = FALSE
    /\ emitted = <<>>
    /\ observed = NoObservers
    /\ threw = "none"
    /\ inflight = {}
    /\ NewRegistry(DefaultOptions)
    /\ \E opts \in BackoffOptionSets : backoff = NewBackoff(opts)
    /\ delay = NoDelay
    /\ retry = NewRun({})

NextBackoff ==
    \/ \E n \in 0..MaxExponent, u \in RandomOffsets : CalculateDelay(n, u)
    \/ \E u \in RandomOffsets : NextDelay(u)
    \/ ResetBackoff

SpecBackoff == InitBackoff /\ [][NextBackoff]_vars

(***************************************************************************)
(* SpecRetry: one call of withRetry, with any outcome of each call of fn.  *)
(***************************************************************************)
Errors == {"e1", "e2"}

\* shouldRetry: the default (every error), or one that rejects e2
ShouldRetrySets == {Errors, {"e1"}}

InitRetry ==
    /\ now = 1
    /\ config = ModelConfig
    /\ workers = <<>>
    /\ roundRobinIndex = 0
    /\ taskQueue = <<>>
    /\ activeTasks = <<>>
    /\ taskResults = <<>>
    /\ tasks = <<>>
    /\ processingTimer = FALSE
    /\ liveIntervals = 0
    /\ healthCheckTimer = FALSE
    /\ emitted = <<>>
    /\ observed = NoObservers
    /\ threw = "none"
    /\ inflight = {}
    /\ NewRegistry(DefaultOptions)
    /\ \E opts \in BackoffOptionSets : backoff = NewBackoff(opts)
    /\ delay = NoDelay
    /\ \E retriable \in ShouldRetrySets : retry = NewRun(retriable)

NextRetry ==
    \/ WithRetry
    \/ FnResolves("ok")
    \/ \E e \in Errors, u \in RandomOffsets : FnRejects(e, u)
    \/ RetryTimerFires

SpecRetry == InitRetry /\ [][NextRetry]_vars

(***************************************************************************)
(* SpecRegistry: workers that register, report, fall silent and register   *)
(* again, each always with the same descriptor.                            *)
(***************************************************************************)
RegistryDescriptors ==
    { [id |-> "w1", capabilities |-> {"chat"}, currentLoad |-> 0, maxLoad |-> 1],
      [id |-> "w2", capabilities |-> {}, currentLoad |-> 1, maxLoad |-> 2] }

RegistryHeartbeats ==
    [workerId : WorkerIds, status : WorkerStatuses, currentLoad : {0, 1},
     maxLoad : {1, 2}, capabilities : {{"chat"}}]

NextRegistry ==
    \/ Advance
    \/ StartOnce
    \/ \E desc \in RegistryDescriptors : RegisterWorker(desc, 0)
    \/ \E p \in RegistryHeartbeats : Heartbeat(p)
    \/ CheckWorkerHealth

SpecRegistry == Init /\ [][NextRegistry]_vars

(***************************************************************************)
(* SpecValidation: tasks posted over HTTP, with bodies that lack the type  *)
(* or name a priority the orchestrator does not know, and results that     *)
(* name any worker id, the assignee or not.                                *)
(***************************************************************************)
Bodies ==
    [type : {"chat", ""}]
    \cup [type : {"chat", ""}, priority : {"high", "low", "urgent"}]

NextValidation ==
    \/ StartOnce
    \/ \E desc \in Descriptors : RegisterWorker(desc, 0)
    \/ \E body \in Bodies : Len(tasks) < ValidationTasks /\ HandleTaskSubmit(body)
    \/ \E r \in ResultsFor(1..ValidationTasks, WorkerIds) : ReportTaskResult(r, 0)
    \/ \E draws \in Draws(config.routingStrategy, ValidationTasks) : Tick(0, draws)

SpecValidation == Init /\ [][NextValidation]_vars

(***************************************************************************)
(* SpecEvents: an orchestrator constructed with observers that record the  *)
(* task events, some of which throw; tasks against the clock, and a worker *)
(* that comes and goes.                                                    *)
(***************************************************************************)
InitEvents ==
    /\ now = 1
    /\ config = ModelConfig
    /\ workers = <<>>
    /\ roundRobinIndex = 0
    /\ taskQueue = <<>>
    /\ activeTasks = <<>>
    /\ taskResults = <<>>
    /\ tasks = <<>>
    /\ processingTimer = FALSE
    /\ liveIntervals = 0
    /\ healthCheckTimer = FALSE
    /\ emitted = <<>>
    /\ observed = RecordingObservers
    /\ threw = "none"
    /\ inflight = {}
    /\ NewRegistry(DefaultOptions)
    /\ NoBackoff

NextEvents ==
    \/ Advance
    \/ StartOnce
    \/ \E desc \in Descriptors : RegisterWorker(desc, 0)
    \/ UnregisterWorker("w1", 0)
    \/ \E sub \in Submissions : Len(tasks) < EventTasks /\ SubmitTask(sub)
    \/ \E r \in ResultsFor(1..EventTasks, {"w1"}), k \in Throws(1) :
          ReportTaskResult(r, k)
    \/ \E k \in Throws(EventTasks), draws \in Draws(config.routingStrategy, EventTasks) :
          Tick(k, draws)

SpecEvents == InitEvents /\ [][NextEvents]_vars

(***************************************************************************)
(* SpecLive: the orchestrator under fair scheduling.  start() is called,   *)
(* the processQueue interval keeps firing, the clock keeps running while   *)
(* an assignment is awaited, and a tick that finds an available worker     *)
(* happens again and again as long as it would assign something.  The      *)
(* worker may leave and come back for ever, and results may be posted or   *)
(* not.  The specification follows one task: a tick sweeps and routes each *)
(* task on its own, and what the observers throw ends the tick after a     *)
(* task has been handled.                                                  *)
(***************************************************************************)
\* the active tasks whose deadline has not passed
Awaited == {id \in Range(activeTasks) : ~TimedOut(tasks[id], now)}

\* the time by which every assignment of the task has met its deadline when
\* the clock runs only while an assignment is awaited
Horizon ==
    1 + (ModelConfig.defaultMaxRetries + 1) * (ModelConfig.defaultTaskTimeoutMs + 1)

\* time passes while an assignment is awaited (the time that passes while
\* none is changes no comparison the orchestrator makes)
ClockRuns ==
    /\ Awaited # {}
    /\ now < Horizon
    /\ now' = now + 1
    /\ UNCHANGED << config, workers, roundRobinIndex, taskQueue, activeTasks,
                    taskResults, tasks, processingTimer, liveIntervals,
                    healthCheckTimer, emitted, threw, inflight, observed >>
    /\ BreakersUnchanged
    /\ BackoffUnchanged

\* a processQueue interval fires, with observers that may throw
AnyTick ==
    \E k \in Throws(1), draws \in Draws(config.routingStrategy, Len(tasks)) :
        Tick(k, draws)

\* a processQueue interval fires while getAvailable() is not empty
AvailableTick == getAvailable(workers) # <<>> /\ AnyTick

NextLive ==
    \/ ClockRuns
    \/ StartOnce
    \/ \E desc \in Descriptors : RegisterWorker(desc, 0)
    \/ UnregisterWorker("w1", 0)
    \/ \E sub \in Submissions : tasks = <<>> /\ SubmitTask(sub)
    \/ \E r \in ResultsFor(DOMAIN tasks, {"w1"}) : ReportTaskResult(r, 0)
    \/ AnyTick

Fairness ==
    /\ WF_vars(StartOnce)
    /\ WF_vars(ClockRuns)
    /\ WF_vars(AnyTick)
    /\ SF_vars(AvailableTick)

SpecLive == Init /\ [][NextLive]_vars /\ Fairness

(***************************************************************************)
(* Properties of the task lifecycle.                                       *)
(***************************************************************************)

\* C1: every submitted task is in exactly one of the pending queue, the active
\* table and the results table.
LocationExclusive ==
    \A id \in TaskIds : Count(InQueue(id)) + Count(InActive(id)) + Count(HasResult(id)) = 1

\* C3: retries never exceeds maxRetries, a failed task has retries =
\* maxRetries, and an assigned task whose retries are spent is never made
\* pending again: whatever ends its assignment leaves it completed (a
\* success) or failed (a failure or a timeout), outside the queue.
RetriesWithinBudget ==
    \A id \in TaskIds :
        /\ tasks[id].retries <= tasks[id].maxRetries
        /\ tasks[id].status = "failed" => tasks[id].retries = tasks[id].maxRetries

SpentTaskNeverRequeued ==
    \A id \in TaskIds :
        (tasks[id].status = "assigned" /\ tasks[id].retries = tasks[id].maxRetries) =>
            /\ tasks'[id].status # "pending"
            /\ ~(id \in Range(taskQueue'))
            /\ tasks'[id] # tasks[id] =>
                  /\ id \in DOMAIN taskResults'
                  /\ tasks'[id].status = IF taskResults'[id].success THEN "completed"
                                         ELSE "failed"

RetryBound == [](RetriesWithinBudget) /\ [][SpentTaskNeverRequeued]_vars

\* C3 witness: a task has failed after using its one retry
FailedAfterRetry ==
    \E id \in TaskIds :
        tasks[id].status = "failed" /\ tasks[id].retries = 1 /\ tasks[id].maxRetries = 1

\* C4: a failed result for an active task with retries left puts the task back
\* in the queue at its priority position (behind every queued task of equal or
\* higher priority, ahead of every queued task of lower priority), with
\* retries one higher, status pending, assignedTo and assignedAt cleared, and
\* no taskFailed call.  (The clock of SpecQueue stands still: an assigned task
\* leaves the active table only through reportTaskResult.)
rank(id) == priorityOrder(tasks[id].priority)

FailureAccepted(id) ==
    /\ InActive(id)
    /\ ~(id \in Range(activeTasks'))
    /\ id \in DOMAIN taskResults'
    /\ ~taskResults'[id].success

AtPriorityPosition(queue, id) ==
    LET k == IndexOf(queue, id)
    IN  /\ \A i \in 1..(k - 1) : rank(queue[i]) <= rank(id)
        /\ \A i \in (k + 1)..Len(queue) : rank(queue[i]) > rank(id)

RequeuedOnFailure ==
    \A id \in TaskIds :
        (FailureAccepted(id) /\ tasks[id].retries < tasks[id].maxRetries) =>
            /\ id \in Range(taskQueue')
            /\ Remove(taskQueue', id) = taskQueue
            /\ AtPriorityPosition(taskQueue', id)
            /\ tasks'[id] = [tasks[id] EXCEPT !.retries = @ + 1, !.status = "pending",
                                              !.assignedTo = Undefined,
                                              !.assignedAt = NoTime]
            /\ \A i \in 1..Len(emitted') : emitted'[i].kind # "taskFailed"

RetryRequeues == [][RequeuedOnFailure]_vars

\* C4 witness: a task re-queued after a failure waits behind a task of its own
\* priority that was submitted after it
RequeuedBehindEqual ==
    \E i, j \in 1..Len(taskQueue) :
        /\ i < j
        /\ tasks[taskQueue[j]].retries = 1
        /\ tasks[taskQueue[j]].status = "pending"
        /\ tasks[taskQueue[j]].assignedTo = Undefined
        /\ rank(taskQueue[i]) = rank(taskQueue[j])
        /\ taskQueue[j] < taskQueue[i]

\* C6: the pending queue is sorted by priority rank.
QueueSortedByPriority ==
    \A i, j \in 1..Len(taskQueue) : i < j => rank(taskQueue[i]) <= rank(taskQueue[j])

\* C6 witness: a re-queued task waits ahead of a task of lower priority
RequeuedAheadOfLower ==
    \E i, j \in 1..Len(taskQueue) :
        /\ i < j
        /\ tasks[taskQueue[i]].retries = 1
        /\ rank(taskQueue[i]) < rank(taskQueue[j])

\* C7: insertion is stable.  A submitted task is placed behind every queued
\* task of equal or higher priority and ahead of every queued task of lower
\* priority, the others keep their order, and so tasks of equal priority wait
\* in submission order (ids are minted in submission order).
SubmittedAtPriorityPosition ==
    Len(tasks') = Len(tasks) + 1 =>
        LET id == Len(tasks')
        IN  /\ id \in Range(taskQueue')
            /\ Remove(taskQueue', id) = taskQueue
            /\ LET k == IndexOf(taskQueue', id)
               IN  /\ \A i \in 1..(k - 1) :
                        priorityOrder(tasks'[taskQueue'[i]].priority)
                            <= priorityOrder(tasks'[id].priority)
                   /\ \A i \in (k + 1)..Len(taskQueue') :
                        priorityOrder(tasks'[taskQueue'[i]].priority)
                            > priorityOrder(tasks'[id].priority)

EqualPriorityInSubmissionOrder ==
    \A i, j \in 1..Len(taskQueue) :
        (i < j /\ rank(taskQueue[i]) = rank(taskQueue[j])) => taskQueue[i] < taskQueue[j]

StableInsertion ==
    [](EqualPriorityInSubmissionOrder) /\ [][SubmittedAtPriorityPosition]_vars

\* C7 witness: normal, high, normal, critical were submitted in that order and
\* wait as critical, high, first normal, second normal
FourSubmissionsQueued ==
    /\ Len(tasks) = 4
    /\ tasks[1].priority = "normal"
    /\ tasks[2].priority = "high"
    /\ tasks[3].priority = "normal"
    /\ tasks[4].priority = "critical"
    /\ taskQueue = <<4, 2, 1, 3>>

\* C5: stats() counts the completed and the failed tasks, and the sizes of the
\* queue and the active table.
StatsCountFinishedTasks ==
    /\ stats.completed = Cardinality({id \in TaskIds : tasks[id].status = "completed"})
    /\ stats.failed = Cardinality({id \in TaskIds : tasks[id].status = "failed"})
    /\ stats.queued = Len(taskQueue)
    /\ stats.active = Len(activeTasks)

\* C8 as stated: an assigned task names a worker and a time, and the worker is
\* in the Registry now.
AssignedToRegisteredWorker ==
    \A id \in TaskIds :
        tasks[id].status = "assigned" =>
            /\ tasks[id].assignedTo # Undefined
            /\ tasks[id].assignedAt # NoTime
            /\ HasWorker(workers, tasks[id].assignedTo)

\* C8 amended: an assigned task names a worker and a time, and the worker was
\* in the Registry when the task was assigned.
AssignedFieldsSet ==
    \A id \in TaskIds :
        tasks[id].status = "assigned" =>
            tasks[id].assignedTo # Undefined /\ tasks[id].assignedAt # NoTime

AssignedFromRegistry ==
    \A id \in TaskIds :
        (tasks'[id].status = "assigned" /\ tasks'[id] # tasks[id]) =>
            HasWorker(workers, tasks'[id].assignedTo)

AssignmentConsistency == [](AssignedFieldsSet) /\ [][AssignedFromRegistry]_vars

\* C8 witness: a task is still assigned to a worker that has been unregistered
AssignedToDepartedWorker ==
    \E id \in TaskIds :
        /\ tasks[id].status = "assigned"
        /\ InActive(id)
        /\ ~HasWorker(workers, tasks[id].assignedTo)


(***************************************************************************)
(* The timeout sweep, observers and late results.                          *)
(***************************************************************************)
Core(st) == << st.taskQueue, st.activeTasks, st.taskResults, st.tasks, st.roundRobinIndex >>

\* assignment m of a task has ended: the task is no longer active on it
Superseded(m) == ~(InActive(m.task) /\ tasks[m.task].retries = m.attempt)

LateResultIgnored ==
    \A m \in inflight, success \in BOOLEAN :
        (WorkerResult(m, success) /\ Superseded(m)) => OrchestratorUnchanged

SweepOnlyOpenAssignments ==
    \A draws \in Draws(config.routingStrategy, RaceTasks) :
        DispatchingTick(0, draws) =>
            \A id \in Range(activeTasks) :
                TimedOut(tasks[id], now) =>
                    \E m \in inflight : m.task = id /\ m.attempt = tasks[id].retries

\* C2: when the timeout sweep and the worker's own result are both delivered
\* for one assignment of a task, only the first takes effect: a worker's
\* result for an assignment that has already ended changes no state, and the
\* sweep times out only assignments whose result has not been delivered.
RaceHasOneWinner == [][LateResultIgnored /\ SweepOnlyOpenAssignments]_vars

HandledAsTimeout(id) ==
    /\ id \in DOMAIN taskResults'
    /\ taskResults'[id] = TimeoutResult(id, tasks[id])
    /\ IF tasks[id].retries < tasks[id].maxRetries
       THEN /\ tasks'[id].retries = tasks[id].retries + 1
            /\ id \in Range(taskQueue') \cup Range(activeTasks')
       ELSE /\ tasks'[id].status = "failed"
            /\ tasks'[id].error = "Task timed out"

LeftUntouched(id) == tasks'[id] = tasks[id] /\ id \in Range(activeTasks')

\* C9: at every tick each active task past its deadline is handled as a failed
\* result "Task timed out" (re-queued with one more retry while retries remain,
\* failed with that error otherwise), and every active task within its deadline
\* is left as it was.
SweepHandlesEveryDeadline ==
    [][\A k \in Throws(PairTasks), draws \in Draws(config.routingStrategy, PairTasks) :
          Tick(k, draws) =>
              \A id \in Range(activeTasks) :
                  IF TimedOut(tasks[id], now) THEN HandledAsTimeout(id)
                  ELSE LeftUntouched(id)]_vars

RestOfTickRuns ==
    \A k \in Throws(PairTasks), draws \in Draws(config.routingStrategy, PairTasks) :
        Tick(k, draws) =>
            << taskQueue', activeTasks', taskResults', tasks', roundRobinIndex' >>
                = Core(TickOutcome(0, draws))

\* C10: an exception thrown by an observer never reaches the caller of the
\* operation that fired the event, and a tick does to the tasks what it does
\* when no observer throws.
ObserverFailuresContained == [][threw' # "observer" /\ RestOfTickRuns]_vars

(***************************************************************************)
(* Submission, unknown results, order of assignment, terminal states.      *)
(***************************************************************************)
TablesUnchanged == UNCHANGED << taskQueue, activeTasks, taskResults, tasks >>

SubmitRefused == threw' = "Task queue is full" /\ TablesUnchanged

SubmitAccepted ==
    LET id == Len(tasks) + 1
    IN  /\ threw' = "none"
        /\ Len(tasks') = id
        /\ \A old \in TaskIds : tasks'[old] = tasks[old]
        /\ tasks'[id].status = "pending" /\ tasks'[id].retries = 0
        /\ Range(taskQueue') = Range(taskQueue) \cup {id}
        /\ Len(taskQueue') = Len(taskQueue) + 1
        /\ Remove(taskQueue', id) = taskQueue
        /\ UNCHANGED << activeTasks, taskResults >>

\* C11: submitTask fails with "Task queue is full" exactly when the pending
\* queue already holds at least maxQueueSize tasks, and then leaves the queue,
\* the active table, the results and the tasks as they were; otherwise it adds
\* exactly one new pending task with retries = 0.
SubmitRespectsCapacity ==
    [][\A sub \in Submissions :
          SubmitTask(sub) =>
              IF Len(taskQueue) >= config.maxQueueSize THEN SubmitRefused
              ELSE SubmitAccepted]_vars

\* C11 witness: a submission was refused on a full queue while another task,
\* submitted earlier, is active
RefusedWhileOthersActive ==
    /\ threw = "Task queue is full"
    /\ Len(taskQueue) = config.maxQueueSize
    /\ activeTasks # <<>>

\* C12: a result reported for a task id that is not in the active table (never
\* submitted, still pending, or already finished) changes neither the pending
\* queue, the active table, the results nor any task, and fires no event.
UnknownResultDropped ==
    [][\A r \in ResultsFor(1..RaceTasks, {"w1"}) :
          (/\ ~InActive(r.taskId)
           /\ \/ ReportTaskResult(r, 0)
              \/ \E m \in inflight : m.task = r.taskId /\ WorkerResult(m, r.success))
          => (TablesUnchanged /\ emitted' = <<>> /\ threw' = "none")]_vars

\* C12 witness: a task's second assignment was ended by the timeout sweep with
\* no retry left, and the result its worker posted for that assignment has been
\* delivered: it came for a task that was not active
LateResultAfterFinalTimeout ==
    \E id \in TaskIds :
        /\ tasks[id].status = "failed"
        /\ tasks[id].retries = 1
        /\ tasks[id].error = "Task timed out"
        /\ \A m \in inflight : m.task # id

SamePriority(a, b) == tasks[a].priority = tasks[b].priority

\* b is assigned by this step, and a not later than b
AssignedNoLater(a, b) ==
    InActive(b)' =>
        /\ InActive(a)'
        /\ IndexOf(activeTasks', a) < IndexOf(activeTasks', b)

\* C13 as stated: of two waiting tasks of one priority, the one submitted
\* earlier is assigned no later than the one submitted later.
FifoBySubmission ==
    [][\A a, b \in Range(taskQueue) :
          (SamePriority(a, b) /\ a < b) => AssignedNoLater(a, b)]_vars

\* C13 amended: of two waiting tasks of one priority, the one nearer the head
\* of the pending queue is assigned no later than the other.
FifoByQueuePosition ==
    [][\A a, b \in Range(taskQueue) :
          (SamePriority(a, b) /\ IndexOf(taskQueue, a) < IndexOf(taskQueue, b))
          => AssignedNoLater(a, b)]_vars

\* C13 witness: one tick assigned two tasks of one priority, first the task
\* submitted later and then the earlier one, which a failure had re-queued
LaterSubmissionAssignedFirst ==
    /\ Len(emitted) = 2
    /\ emitted[1].kind = "taskAssigned" /\ emitted[2].kind = "taskAssigned"
    /\ emitted[1].task > emitted[2].task
    /\ SamePriority(emitted[1].task, emitted[2].task)
    /\ tasks[emitted[2].task].retries > 0

Finished(id) == tasks[id].status \in {"completed", "failed"}

\* C14: completed and failed are terminal.  No step changes a finished task
\* (its status, its retries, any other field) or its stored result, and a
\* finished task is never in the pending queue or the active table again.
FinishedIsTerminal ==
    [][\A id \in TaskIds :
          Finished(id) =>
              /\ tasks'[id] = tasks[id]
              /\ HasResult(id) /\ taskResults'[id] = taskResults[id]
              /\ ~InQueue(id)' /\ ~InActive(id)']_vars

\* C14 witness: a task finished, its deadline has passed since, and an operation
\* after the one that finished it has run
FinishedPastDeadline ==
    \E id \in TaskIds :
        /\ Finished(id)
        /\ TimedOut(tasks[id], now)
        /\ liveIntervals > 0
        /\ emitted = <<>>

(***************************************************************************)
(* Workers: loss, liveness, eligibility.                                   *)
(***************************************************************************)
WorkerLost == CheckWorkerHealth \/ \E k \in Throws(1) : UnregisterWorker("w1", k)

ResultOrTick ==
    \/ \E r \in ResultsFor(1..MaxTasks, {"w1"}), k \in Throws(1) : ReportTaskResult(r, k)
    \/ \E k \in Throws(MaxTasks), draws \in Draws(config.routingStrategy, MaxTasks) :
          Tick(k, draws)

\* C15: losing a worker changes no task.  The liveness sweep and
\* unregisterWorker leave the pending queue, the active table and every task
\* (status, assignedTo, assignedAt, retries) as they were, and a task leaves the
\* active table only in a reported result or in a tick's timeout sweep.
WorkerLossKeepsTasks ==
    [][/\ WorkerLost => TablesUnchanged
       /\ (\E id \in TaskIds : InActive(id) /\ ~InActive(id)') => ResultOrTick]_vars

\* C15 witness: a task is still assigned to a worker that the liveness sweep
\* has flipped to offline
AssignedToOfflineWorker ==
    \E id \in TaskIds :
        /\ tasks[id].status = "assigned"
        /\ InActive(id)
        /\ HasWorker(workers, tasks[id].assignedTo)
        /\ GetWorker(workers, tasks[id].assignedTo).status = "offline"

HeartbeatAge(id) == now - GetWorker(workers, id).lastHeartbeat

\* C16: the liveness check runs before each assignment step, so a tick never
\* assigns a task to a worker whose heartbeat age at that moment exceeds
\* heartbeatIntervalMs * missedHeartbeatsThreshold.
NeverRoutedToStaleWorker ==
    [][\A k \in Throws(MaxTasks), draws \in Draws(config.routingStrategy, MaxTasks) :
          Tick(k, draws) =>
              \A i \in 1..Len(emitted') :
                  emitted'[i].kind = "taskAssigned" =>
                      HeartbeatAge(emitted'[i].worker) <= MaxAge(config)]_vars

\* C17: after stop() the orchestrator is quiet until the next start(),
\* whatever calls of start() and stop() came before: while no timer is held no
\* tick assigns or times out a task and no liveness sweep flips a worker, and
\* stop() itself leaves the pending queue and the active table as they were.
StoppedIsQuiet ==
    [][/\ ~processingTimer =>
            /\ ~(\E draws \in Draws(config.routingStrategy, MaxTasks) :
                    Tick(0, draws) /\ tasks' # tasks)
            /\ ~(CheckWorkerHealth /\ workers' # workers)
       /\ Stop => UNCHANGED << taskQueue, activeTasks >>]_vars

HasHeadroom(w) == w.currentLoad < w.maxLoad

Matches(w, type) == w.capabilities = {} \/ type \in w.capabilities

Available == {w \in Range(workers) : w.status \in {"online", "busy"} /\ HasHeadroom(w)}

Capable(type) == {w \in Available : Matches(w, type)}

AssignedEvents(evs) == {i \in 1..Len(evs) : evs[i].kind = "taskAssigned"}

\* the worker an assignment event names, as the registry holds it
Assignee(ev) == GetWorker(workers, ev.worker)

EligibleAsStated(ev) ==
    /\ HasWorker(workers, ev.worker)
    /\ Assignee(ev).status # "offline"
    /\ HasHeadroom(Assignee(ev))
    /\ Matches(Assignee(ev), tasks[ev.task].type)

EligibleOrFallback(ev) ==
    /\ HasWorker(workers, ev.worker)
    /\ Assignee(ev).status \in {"online", "busy"}
    /\ HasHeadroom(Assignee(ev))
    /\ Matches(Assignee(ev), tasks[ev.task].type) \/ Capable(tasks[ev.task].type) = {}

\* C18 as stated: a worker that a tick assigns a task to is registered, not
\* offline, has currentLoad < maxLoad, and lists the task's type or lists
\* nothing.
AssigneeEligible ==
    [][\A draws \in Draws(config.routingStrategy, RoutingTasks) :
          Tick(0, draws) => \A i \in AssignedEvents(emitted') : EligibleAsStated(emitted'[i])]_vars

\* C18 amended: a worker that a tick assigns a task to is registered, online
\* or busy, has currentLoad < maxLoad, and lists the task's type or lists
\* nothing, unless no available worker does: then any available worker may get
\* the task.
AssigneeEligibleOrFallback ==
    [][\A draws \in Draws(config.routingStrategy, RoutingTasks) :
          Tick(0, draws) => \A i \in AssignedEvents(emitted') : EligibleOrFallback(emitted'[i])]_vars

\* C18 witness: the last tick gave a task to a worker that lists capabilities
\* but not the task's type
AssignedWithoutCapability ==
    \E i \in AssignedEvents(emitted) :
        /\ HasWorker(workers, emitted[i].worker)
        /\ ~Matches(Assignee(emitted[i]), tasks[emitted[i].task].type)

ProbeTask(type) == [type |-> type]

\* C19: route returns null exactly when no worker is online or busy with
\* currentLoad < maxLoad; otherwise it returns an available worker, one that
\* passes the capability filter when some available worker does and any
\* available worker when none does.
RouteFallsBack ==
    \A type \in RoutingTypes, draw \in 0..(RandomSteps - 1) :
        LET assignment == route(ProbeTask(type), workers, config.routingStrategy,
                                roundRobinIndex, draw)
            pool == IF Capable(type) # {} THEN Capable(type) ELSE Available
        IN  /\ assignment.workerId = Undefined <=> Available = {}
            /\ assignment.workerId # Undefined =>
                  assignment.workerId \in {w.id : w \in pool}

\* C19 witness: the last tick gave a task to a worker outside the capability
\* filter while the one worker that lists the task's type was not available
FellBackPastUnavailableMatch ==
    \E i \in AssignedEvents(emitted) :
        /\ HasWorker(workers, emitted[i].worker)
        /\ ~Matches(Assignee(emitted[i]), tasks[emitted[i].task].type)
        /\ \E w \in Range(workers) \ Available : tasks[emitted[i].task].type \in w.capabilities

\* the eligible list of a task of the one type, as a tick's route calls see it
EligibleNow == getEligibleWorkers(ProbeTask("chat"), workers)

\* the k-th selection of a tick takes eligible[(index + k - 1) mod n]
SelectedInTurn ==
    LET n == Len(EligibleNow)
    IN  \A k \in 1..Len(emitted') :
            /\ emitted'[k].kind = "taskAssigned"
            /\ emitted'[k].worker = EligibleNow[((roundRobinIndex + k - 1) % n) + 1].id

IndexAdvanced ==
    Len(emitted') > 0 =>
        roundRobinIndex' = (roundRobinIndex + Len(emitted')) % Len(EligibleNow)

EveryWorkerOnce ==
    LET n == Len(EligibleNow)
    IN  Len(emitted') >= n =>
            /\ {emitted'[k].worker : k \in 1..n} = {w.id : w \in Range(EligibleNow)}
            /\ \A j, k \in 1..n : emitted'[j].worker = emitted'[k].worker => j = k

\* C20: with round-robin each selection takes eligible[index mod n] of the
\* current eligible list (n >= 1), whatever size the list had before; the
\* index then advances by one (mod n); and n consecutive selections from an
\* unchanged list select every worker exactly once.
RoundRobinCycles ==
    [][\A draws \in Draws(config.routingStrategy, RobinTasks) :
          (Tick(0, draws) /\ Len(EligibleNow) >= 1) =>
              SelectedInTurn /\ IndexAdvanced /\ EveryWorkerOnce]_vars

\* C20 witness: one tick made two selections from a list of two workers,
\* starting at the second
FullCycleFromSecond ==
    /\ Len(emitted) = 2
    /\ Len(EligibleNow) = 2
    /\ emitted[1].kind = "taskAssigned" /\ emitted[1].worker = EligibleNow[2].id
    /\ emitted[2].kind = "taskAssigned" /\ emitted[2].worker = EligibleNow[1].id

(***************************************************************************)
(* Selection strategies.                                                   *)
(***************************************************************************)
\* currentLoad/maxLoad of a is at most that of b
RatioAtMost(a, b) == a.currentLoad * b.maxLoad <= b.currentLoad * a.maxLoad

\* position i of list ws holds the first worker of minimal ratio among the
\* positions in `among`
FirstOfMinimalRatio(ws, among, i) ==
    /\ i \in among
    /\ \A j \in among : RatioAtMost(ws[i], ws[j])
    /\ \A j \in among : j < i => ~RatioAtMost(ws[j], ws[i])

RoutedTo(type) ==
    route(ProbeTask(type), workers, config.routingStrategy, roundRobinIndex, 0).workerId

Eligible(type) == getEligibleWorkers(ProbeTask(type), workers)

\* C21: with least-loaded the selected worker has the minimal ratio
\* currentLoad/maxLoad among the eligible workers and is the first of that
\* ratio in the eligible list.
LeastLoadedIsFirstMinimum ==
    config.routingStrategy = "least-loaded" =>
        \A type \in RoutingTypes :
            Eligible(type) # <<>> =>
                \E i \in 1..Len(Eligible(type)) :
                    /\ Eligible(type)[i].id = RoutedTo(type)
                    /\ FirstOfMinimalRatio(Eligible(type), 1..Len(Eligible(type)), i)

\* C21 witness: under least-loaded the last tick passed over the first
\* registered worker and gave the task to the first of two later workers of
\* equal, lower ratio
LeastLoadedSkippedFirst ==
    /\ config.routingStrategy = "least-loaded"
    /\ Len(workers) = 3
    /\ AssignedEvents(emitted) # {}
    /\ \A i \in AssignedEvents(emitted) : emitted[i].worker = workers[2].id
    /\ Eligible("chat") = workers
    /\ ~RatioAtMost(workers[1], workers[2])
    /\ RatioAtMost(workers[3], workers[2])

Lists(ws, type) == {i \in 1..Len(ws) : type \in ws[i].capabilities}

\* C22: with capability-match, when some eligible worker lists the task's type
\* the selected worker is the least-loaded of the workers listing it, and
\* otherwise the least-loaded of all eligible workers.
CapabilityMatchPrefersListed ==
    config.routingStrategy = "capability-match" =>
        \A type \in RoutingTypes :
            Eligible(type) # <<>> =>
                \E i \in 1..Len(Eligible(type)) :
                    /\ Eligible(type)[i].id = RoutedTo(type)
                    /\ FirstOfMinimalRatio(Eligible(type),
                          IF Lists(Eligible(type), type) # {}
                          THEN Lists(Eligible(type), type)
                          ELSE 1..Len(Eligible(type)),
                          i)

\* C22 witness: under capability-match the last tick gave a chat task to a
\* worker listing "chat" although the worker listing nothing had a lower ratio
ListedChosenOverIdleWildcard ==
    /\ config.routingStrategy = "capability-match"
    /\ \E i \in AssignedEvents(emitted) :
          /\ tasks[emitted[i].task].type = "chat"
          /\ "chat" \in Assignee(emitted[i]).capabilities
          /\ \E w \in Range(Eligible("chat")) :
                w.capabilities = {} /\ ~RatioAtMost(Assignee(emitted[i]), w)

(***************************************************************************)
(* Circuit breaker properties.                                             *)
(***************************************************************************)
\* the breaker of a worker, as get would hand it out
BreakerOf(map, workerId) == get(map, workerId)[workerId]

\* the samples no older than windowMs at time t
Window(records, opts, t) ==
    SelectSeq(records, LAMBDA r : r.timestamp >= t - opts.windowMs)

\* the step is the registry call op for worker id
Called(op, workerId) == lastCall'.op = op /\ lastCall'.id = workerId

\* the registry call made last was op for worker id
Returned(op, workerId) == lastCall.op = op /\ lastCall.id = workerId

\* the samples in the window right after a sample was recorded at time t
WindowAfterRecording(b, success, opts, t) ==
    Window(Append(b.records, RequestRecord(t, success)), opts, t)

\* C23: a closed breaker opens on recordFailure exactly when the samples no
\* older than windowMs (the new failure included) number at least
\* minimumRequests and their failure rate is at least failureThreshold;
\* otherwise it stays closed, and recordSuccess leaves a closed breaker closed.
ClosedOpensOnWindowedRate ==
    [][\A id \in WorkerIds :
          LET b == BreakerOf(breakers, id)
              w == WindowAfterRecording(b, FALSE, options, now)
          IN  b.state = "closed" =>
                /\ Called("recordFailure", id) =>
                     /\ breakers'[id].state \in {"closed", "open"}
                     /\ breakers'[id].state = "open" <=>
                          /\ Len(w) >= options.minimumRequests
                          /\ AtLeast([num |-> Failures(w), den |-> Len(w)],
                                     options.failureThreshold)
                /\ Called("recordSuccess", id) => breakers'[id].state = "closed"]_vars

\* lastFailure is the time of the most recent recordFailure, whatever the state
LastFailureIsLatest(id) ==
    IF Called("recordFailure", id)
    THEN breakers'[id].lastFailure = now
    ELSE breakers'[id].lastFailure = BreakerOf(breakers, id).lastFailure

\* what canExecute does to an open breaker: refuse before the cooldown has
\* passed since lastFailure, admit and half-open from then on
CooldownGate(id) ==
    Called("isAvailable", id) =>
        IF now - breakers[id].lastFailure < options.cooldownMs
        THEN lastCall'.result = FALSE /\ breakers'[id].state = "open"
        ELSE lastCall'.result = TRUE /\ breakers'[id].state = "half_open"

ResetCalled(id) == Called("reset", id) \/ lastCall'.op = "resetAll"

\* C24 (as amended): for an open breaker canExecute returns false and leaves
\* it open while now - lastFailure < cooldownMs, and returns true and moves it
\* to half_open once now - lastFailure >= cooldownMs, lastFailure being the
\* time of the most recent recordFailure (failures recorded while open
\* included); reset and resetAll force it to closed, and no other call moves
\* a breaker out of open.
OpenLeftByCooldownOrReset ==
    [][\A id \in WorkerIds :
          id \in DOMAIN breakers' =>
            /\ LastFailureIsLatest(id)
            /\ BreakerOf(breakers, id).state = "open" =>
                 /\ CooldownGate(id)
                 /\ ResetCalled(id) => breakers'[id].state = "closed"
                 /\ ~Called("isAvailable", id) /\ ~ResetCalled(id) =>
                        breakers'[id].state = "open"]_vars

\* C24 (as stated): the same, with canExecute the only call that moves a
\* breaker out of open.
OpenLeftOnlyByCooldown ==
    [][\A id \in WorkerIds :
          id \in DOMAIN breakers' =>
            /\ LastFailureIsLatest(id)
            /\ BreakerOf(breakers, id).state = "open" =>
                 /\ CooldownGate(id)
                 /\ ~Called("isAvailable", id) => breakers'[id].state = "open"]_vars

\* C24 witness: canExecute has just half-opened a breaker exactly cooldownMs
\* after its last failure, the third since it was last closed and so one
\* recorded after the breaker had opened
HalfOpenedAtCooldown ==
    /\ options.minimumRequests = 2
    /\ Returned("isAvailable", "w1")
    /\ lastCall.result = TRUE
    /\ breakers["w1"].state = "half_open"
    /\ Failures(breakers["w1"].records) = 3
    /\ now - breakers["w1"].lastFailure = options.cooldownMs

\* C25: a recordSuccess on a half_open breaker closes it, clearing its
\* samples, exactly when it is the successThreshold-th success recorded since
\* half_open was entered, and otherwise leaves it half_open with one success
\* more counted; a recordFailure on a half_open breaker opens it; the count
\* is zero whenever half_open is entered and, while the breaker stays
\* half_open, changes only by recordSuccess.
HalfOpenProbes ==
    [][\A id \in WorkerIds :
          id \in DOMAIN breakers' =>
            LET b == BreakerOf(breakers, id)
                after == breakers'[id]
            IN  /\ b.state = "half_open" /\ Called("recordSuccess", id) =>
                     IF b.halfOpenSuccesses + 1 >= options.successThreshold
                     THEN after.state = "closed" /\ after.records = <<>>
                     ELSE /\ after.state = "half_open"
                          /\ after.halfOpenSuccesses = b.halfOpenSuccesses + 1
                /\ b.state = "half_open" /\ Called("recordFailure", id) =>
                     after.state = "open"
                /\ b.state # "half_open" /\ after.state = "half_open" =>
                     after.halfOpenSuccesses = 0
                /\ b.state = "half_open" /\ after.state = "half_open"
                     /\ ~Called("recordSuccess", id) =>
                        after.halfOpenSuccesses = b.halfOpenSuccesses
                /\ b.state = "half_open" => b.halfOpenSuccesses < options.successThreshold]_vars

\* C25 witness: the second success recorded in half_open has just closed the
\* breaker and cleared its samples
ClosedBySecondProbe ==
    /\ options.successThreshold = 2
    /\ Returned("recordSuccess", "w1")
    /\ breakers["w1"].state = "closed"
    /\ breakers["w1"].halfOpenSuccesses = 2
    /\ breakers["w1"].records = <<>>

StateOf(map, id) == BreakerOf(map, id).state

\* the calls during which C26 lets a breaker's state change
TransitionCalls == {"recordSuccess", "recordFailure", "isAvailable"}

\* some breaker's state differs after the step
StateChanged(id) == StateOf(breakers', id) # StateOf(breakers, id)

\* C26 (as amended): a breaker's state is always one of closed, open and
\* half_open; it changes only during a recordSuccess, recordFailure,
\* canExecute (isAvailable) or reset of that breaker, or during resetAll, and
\* reset and resetAll only ever move it to closed; get, getAllStats,
\* getOpenCircuits and every call made for another worker leave it as it was.
StateChangesOnlyByTransitionOrReset ==
    /\ [](\A id \in DOMAIN breakers : breakers[id].state \in CircuitStates)
    /\ [][\A id \in WorkerIds :
             StateChanged(id) =>
                \/ lastCall'.op \in TransitionCalls /\ lastCall'.id = id
                \/ ResetCalled(id) /\ StateOf(breakers', id) = "closed"]_vars

\* C26 (as stated): the state is always one of the three and changes only
\* during a recordSuccess, recordFailure or canExecute of that breaker.
StateChangesOnlyByTransition ==
    /\ [](\A id \in DOMAIN breakers : breakers[id].state \in CircuitStates)
    /\ [][\A id \in WorkerIds :
             StateChanged(id) =>
                lastCall'.op \in TransitionCalls /\ lastCall'.id = id]_vars

\* C26 witness: both breakers exist, the one of w1 is open and the one of w2
\* has just been half-opened by isAvailable(w2)
OneOpenOtherHalfOpened ==
    /\ DOMAIN breakers = WorkerIds
    /\ breakers["w1"].state = "open"
    /\ breakers["w2"].state = "half_open"
    /\ Returned("isAvailable", "w2")

Max(a, b) == IF a >= b THEN a ELSE b

\* ceil(failureThreshold * n)
CeilOfThreshold(opts, n) ==
    (opts.failureThreshold.num * n + opts.failureThreshold.den - 1)
        \div opts.failureThreshold.den

\* the current window of the breaker holds no success and at least
\* max(minimumRequests, ceil(failureThreshold * windowSamples)) failures
WindowFullOfFailures(b) ==
    LET w == Window(b.records, options, now)
    IN  /\ Successes(w) = 0
        /\ Failures(w) >= Max(options.minimumRequests, CeilOfThreshold(options, Len(w)))

\* C27 (as amended): right after every recordFailure, a breaker whose current
\* window holds no success and at least max(minimumRequests,
\* ceil(failureThreshold * windowSamples)) failures is open.
FailuresOpenOnRecordFailure ==
    \A id \in DOMAIN breakers :
        Returned("recordFailure", id) /\ WindowFullOfFailures(breakers[id]) =>
            breakers[id].state = "open"

\* C27 (as stated): the same after every breaker operation.
FailuresImplyOpen ==
    \A id \in DOMAIN breakers :
        lastCall.op # "none" /\ WindowFullOfFailures(breakers[id]) =>
            breakers[id].state = "open"

\* C27 witness: the second of two failures in the window has just opened a
\* breaker that needs two samples
OpenedBySecondFailure ==
    /\ options.minimumRequests = 2
    /\ Returned("recordFailure", "w1")
    /\ breakers["w1"].state = "open"
    /\ Len(breakers["w1"].records) = 2
    /\ WindowFullOfFailures(breakers["w1"])

(***************************************************************************)
(* Backoff properties.                                                     *)
(***************************************************************************)
\* min(maxDelayMs, baseDelayMs * 2^n), in quarters of a millisecond
CappedExponential(bo, n) ==
    LET e == bo.options.baseDelayMs * Pow2(n)
    IN  IF e <= bo.options.maxDelayMs THEN e ELSE bo.options.maxDelayMs

NoJitter(bo) == bo.options.jitter.num = 0

\* baseDelayMs and maxDelayMs are whole numbers of milliseconds
WholeOptions(bo) == bo.options.baseDelayMs % 4 = 0 /\ bo.options.maxDelayMs % 4 = 0

\* d milliseconds is the whole number nearest to q quarters, ties upwards
Nearest(d, q) == Ms(d) - 2 <= q /\ q < Ms(d) + 2

\* with jitter = 0 the delay does not fall from one attempt to the next
DelayNonDecreasing ==
    \A n \in 0..(MaxExponent - 1), u \in RandomOffsets, v \in RandomOffsets :
        calculateDelay(backoff, n, u) <= calculateDelay(backoff, n + 1, v)

Done(run) == run.pc \in {"returned", "thrown"}

\* onRetry has been invoked exactly once before each repeated call of fn:
\* the i-th invocation came after the i-th call and before the next one
OnRetryBeforeEachRepeat(run) ==
    /\ \A i \in 1..Len(run.retried) : run.retried[i].calls = i
    /\ Len(run.retried) = IF Done(run) THEN run.calls - 1 ELSE run.calls

\* withRetry returned the value of the first call of fn that succeeded
ReturnedFirstSuccess(run) == run.pc = "returned" => run.outcome = "ok"

\* withRetry rethrew the error of its last call, one that shouldRetry
\* rejected or that came when no attempt was left
RethrewLastError(run, bo) ==
    run.pc = "thrown" =>
        /\ run.outcome = run.lastError
        /\ run.lastError \notin run.shouldRetry \/ AttemptsExhausted(bo)

\* C29: withRetry returns the operation's value on its first success or
\* rethrows the error of its last call when shouldRetry rejects that error or
\* attempts are exhausted; it invokes onRetry exactly once before each
\* repeated call; and it never invokes the operation more than maxAttempts
\* times, so it terminates.
RetryWithinMaxAttempts ==
    /\ ReturnedFirstSuccess(retry)
    /\ RethrewLastError(retry, backoff)
    /\ OnRetryBeforeEachRepeat(retry)
    /\ retry.calls <= backoff.options.maxAttempts

(***************************************************************************)
(* Registry properties.                                                    *)
(***************************************************************************)
\* the record a first register(desc) at time t leaves
RegisteredOnce(desc, t) ==
    [ id |-> desc.id, status |-> "online", lastHeartbeat |-> t,
      capabilities |-> desc.capabilities, currentLoad |-> desc.currentLoad,
      maxLoad |-> desc.maxLoad ]

RecordsFor(ws, id) == {i \in 1..Len(ws) : ws[i].id = id}

\* C30: registering a descriptor again under an id that is already
\* registered with it leaves one record for the id, and stats() equal to
\* those of a registry where the id is registered once; the record is the
\* one the first register left, status online, with only lastHeartbeat
\* newer, whatever status and load the worker had reported in between; the
\* other workers' records are untouched.
ReRegisterIsIdempotent ==
    [][\A desc \in RegistryDescriptors :
          RegisterWorker(desc, 0) /\ HasWorker(workers, desc.id) =>
            LET before == GetWorker(workers, desc.id)
                after == GetWorker(workers', desc.id)
                others == SelectSeq(workers, LAMBDA w : w.id # desc.id)
            IN  /\ Cardinality(RecordsFor(workers', desc.id)) = 1
                /\ Len(workers') = Len(workers)
                /\ registryStats(workers')
                     = registryStats(Append(others, RegisteredOnce(desc, now)))
                /\ after.status = "online"
                /\ after = RegisteredOnce(desc, now)
                /\ after.lastHeartbeat >= before.lastHeartbeat
                /\ \A i \in 1..Len(workers) :
                      workers[i].id # desc.id => workers'[i] = workers[i]]_vars

\* C30 witness: w1, registered before w2, has just been registered again at
\* time 3, after w2 went offline
RegisteredAgain ==
    /\ Len(workers) = 2
    /\ workers[1].id = "w1"
    /\ workers[2].status = "offline"
    /\ Len(emitted) = 1
    /\ emitted[1].kind = "workerOnline"
    /\ emitted[1].worker = "w1"
    /\ now = 3
    /\ workers[1] = RegisteredOnce(CHOOSE d \in RegistryDescriptors : d.id = "w1", now)

\* the fields a heartbeat carries over into the worker's record
Reported(p, t) ==
    [ status |-> p.status, currentLoad |-> p.currentLoad, maxLoad |-> p.maxLoad,
      capabilities |-> p.capabilities, lastHeartbeat |-> t ]

HeartbeatFields == {"status", "currentLoad", "maxLoad", "capabilities", "lastHeartbeat"}

\* C31: a heartbeat for an id that is not registered returns nothing and
\* leaves the worker table as it was; a heartbeat for a registered id returns
\* that worker's record and changes nothing but its status, currentLoad,
\* maxLoad, capabilities and lastHeartbeat, which take the reported values
\* and the current time: every other field of the record, every other record
\* and the order of the table stay as they were.
HeartbeatTouchesOnlyItsWorker ==
    [][\A p \in RegistryHeartbeats :
          Heartbeat(p) =>
            IF ~HasWorker(workers, p.workerId)
            THEN workers' = workers /\ heartbeatResult(workers, p, now) = Undefined
            ELSE /\ Len(workers') = Len(workers)
                 /\ heartbeatResult(workers, p, now) = GetWorker(workers', p.workerId)
                 /\ \A i \in 1..Len(workers) :
                       IF workers[i].id # p.workerId THEN workers'[i] = workers[i]
                       ELSE /\ DOMAIN workers'[i] = DOMAIN workers[i]
                            /\ \A f \in DOMAIN workers[i] \ HeartbeatFields :
                                  workers'[i][f] = workers[i][f]
                            /\ \A f \in HeartbeatFields :
                                  workers'[i][f] = Reported(p, now)[f]]_vars

\* C31 witness: w1 alone is registered and carries what only a heartbeat can
\* have reported (degraded, load 1 of 2) at the current time, while the
\* heartbeats sent for w2 have created no record
HeartbeatApplied ==
    /\ Len(workers) = 1
    /\ workers[1].id = "w1"
    /\ workers[1].status = "degraded"
    /\ workers[1].currentLoad = 1
    /\ workers[1].maxLoad = 2
    /\ workers[1].lastHeartbeat = now
    /\ now = 2

\* the age beyond which a worker that sends no heartbeat is stale
StaleAfter == config.heartbeatIntervalMs * config.missedHeartbeatsThreshold

\* C32: right after each checkWorkerHealth sweep every registered worker
\* whose status is not offline has now - lastHeartbeat <=
\* heartbeatIntervalMs * missedHeartbeatsThreshold; the sweep changes nothing
\* in the table but the status of workers it turns offline, and removes no
\* worker.
SweepLeavesFreshOrOffline ==
    [][CheckWorkerHealth =>
          /\ Len(workers') = Len(workers)
          /\ \A i \in 1..Len(workers) :
                /\ workers'[i].status # "offline" =>
                      now - workers'[i].lastHeartbeat <= StaleAfter
                /\ \/ workers'[i] = workers[i]
                   \/ workers'[i] = [workers[i] EXCEPT !.status = "offline"]]_vars

\* C32 witness: w2 has never sent a heartbeat since it registered (its
\* capabilities are still those of its descriptor), is older than the limit
\* and has been turned offline by the sweep, while w1 is fresh and online
SweptOffline ==
    /\ Len(workers) = 2
    /\ HasWorker(workers, "w2")
    /\ GetWorker(workers, "w2").capabilities = {}
    /\ GetWorker(workers, "w2").status = "offline"
    /\ now - GetWorker(workers, "w2").lastHeartbeat > StaleAfter
    /\ GetWorker(workers, "w1").status = "online"
    /\ now - GetWorker(workers, "w1").lastHeartbeat <= StaleAfter

(***************************************************************************)
(* Validation and capacity properties.                                     *)
(***************************************************************************)
\* the body lacks the type or names a priority that is none of the four
Malformed(body) ==
    \/ body.type = ""
    \/ "priority" \in DOMAIN body /\ body.priority \notin Priorities

\* C33: a malformed task submission is rejected and never affects state: a
\* POST /tasks whose body lacks the type, or whose priority is not one of
\* critical, high, normal, low, is answered with an error and leaves the
\* pending queue and the task tables unchanged.
MalformedSubmitRejected ==
    [][\A body \in Bodies :
          Malformed(body) /\ HandleTaskSubmit(body) =>
              threw' # "none" /\ TablesUnchanged]_vars

\* the number of tasks in the active table assigned to the worker
ActiveLoad(id) ==
    Cardinality({a \in Range(activeTasks) : tasks[a].assignedTo = id})

\* C34: maxLoad is the maximum number of concurrent tasks of a worker: at
\* every moment the number of tasks in the active table assigned to a
\* registered worker does not exceed that worker's maxLoad.
ActiveWithinMaxLoad ==
    \A i \in DOMAIN workers : ActiveLoad(workers[i].id) <= workers[i].maxLoad

\* C35: maxQueueSize bounds the pending queue: after any sequence of
\* submits, ticks, result reports and timeouts the pending queue holds at
\* most maxQueueSize tasks, re-queued tasks included.
QueueWithinMaxSize == Len(taskQueue) <= config.maxQueueSize

\* C37: a result is applied to an active task only when result.workerId
\* equals the task's current assignedTo: a result reported for an active task
\* by any other worker leaves the task in the active table and records
\* nothing.
ForeignResultIgnored ==
    [][\A r \in ResultsFor(1..ValidationTasks, WorkerIds) :
          /\ r.taskId \in Range(activeTasks)
          /\ tasks[r.taskId].assignedTo # r.workerId
          /\ ReportTaskResult(r, 0)
          => TablesUnchanged]_vars

\* the statuses of the type TaskStatus
TaskStatuses == {"pending", "assigned", "running", "completed", "failed", "timeout"}

\* C39: after every operation, every task in the pending queue has status
\* pending with assignedTo and assignedAt unset, every task in the active
\* table has status assigned, and no task has the status running or timeout.
QueuedPendingActiveAssigned ==
    /\ \A i \in 1..Len(taskQueue) :
          /\ tasks[taskQueue[i]].status = "pending"
          /\ tasks[taskQueue[i]].assignedTo = Undefined
          /\ tasks[taskQueue[i]].assignedAt = NoTime
    /\ \A id \in Range(activeTasks) : tasks[id].status = "assigned"
    /\ \A id \in DOMAIN tasks :
          tasks[id].status \in TaskStatuses \ {"running", "timeout"}

\* C39 witness: the sweep of a tick has timed a task out and the task waits
\* in the queue for its retry
TimedOutTaskRequeued ==
    \E i \in 1..Len(taskQueue) :
        /\ tasks[taskQueue[i]].retries > 0
        /\ HasResult(taskQueue[i])
        /\ taskResults[taskQueue[i]].error = "Task timed out"

\* the pending queue as the sweep of a tick leaves it, for the assignment loop
PendingAtTick == checkTimeouts(Running(0), now).taskQueue

\* the last n elements of a sequence
Last(s, n) == SubSeq(s, Len(s) - n + 1, Len(s))

\* what the tick does when some worker is available, and when none is
AllOrNothing ==
    /\ workers' = workers
    /\ IF getAvailable(workers) # <<>>
       THEN /\ taskQueue' = <<>>
            /\ Len(activeTasks') >= Len(PendingAtTick)
            /\ Last(activeTasks', Len(PendingAtTick)) = PendingAtTick
       ELSE /\ taskQueue' = PendingAtTick
            /\ \A id \in Range(taskQueue) : id \in Range(taskQueue')

\* C40: an assignment tick is all-or-nothing over the pending queue: if at
\* least one worker is online or busy with currentLoad < maxLoad when the tick
\* runs, every pending task is assigned in that tick, in queue order, and the
\* queue is empty when it ends; if no such worker exists, no task leaves the
\* queue. The tick changes no worker record.
TickIsAllOrNothing ==
    [][\A k \in Throws(PairTasks), draws \in Draws(config.routingStrategy, PairTasks) :
          Tick(k, draws) => AllOrNothing]_vars

(***************************************************************************)
(* The order of the task events.                                           *)
(***************************************************************************)
\* the kinds of the events recorded for a task, in the order they were fired
EventsOf(id) ==
    LET calls == SelectSeq(observed.calls, LAMBDA e : e.task = id)
    IN  [i \in 1..Len(calls) |-> calls[i].kind]

\* the positions of the taskCompleted and taskFailed events of a task
Endings(id) ==
    {i \in 1..Len(EventsOf(id)) : EventsOf(id)[i] \in {"taskCompleted", "taskFailed"}}

\* C38: events appear in per-task order: every taskCompleted or taskFailed
\* for a task is preceded by a taskAssigned for that task, at most one of
\* taskCompleted and taskFailed is ever emitted for a task and at most once,
\* and no taskAssigned for the task follows it.
EventsInTaskOrder ==
    \A id \in 1..EventTasks :
        /\ Cardinality(Endings(id)) <= 1
        /\ \A i \in Endings(id) :
              /\ i = Len(EventsOf(id))
              /\ \E j \in 1..(i - 1) : EventsOf(id)[j] = "taskAssigned"

\* C38 witness: a task was assigned, timed out or failed, was assigned again
\* and then failed for good
AssignedTwiceThenFailed ==
    \E id \in 1..EventTasks :
        EventsOf(id) = << "taskAssigned", "taskAssigned", "taskFailed" >>

\* a task was assigned and then completed
AssignedThenCompleted ==
    \E id \in 1..EventTasks : EventsOf(id) = << "taskAssigned", "taskCompleted" >>

(***************************************************************************)
(* Progress.                                                               *)
(***************************************************************************)
\* the clock of SpecLive is never held back by its horizon
HorizonNeverBinds == Awaited # {} => now < Horizon

\* every task submitted so far is completed or failed
AllFinished == \A id \in 1..Len(tasks) : Finished(id)

\* C36: if the assignment tick keeps running, time advances and some worker
\* is available at infinitely many ticks, every submitted task eventually
\* reaches completed or failed, even if no worker ever posts a result.  A
\* finished task stays finished, so this is stated as: again and again every
\* task submitted so far is finished.
EveryTaskFinishes ==
    []<>(getAvailable(workers) # <<>>) => []<>AllFinished

\* C36 witness: a task failed for good with no result but those of the sweep:
\* its last assignment ended by timeout after a retry
FailedByTimeoutsAlone ==
    \E id \in 1..Len(tasks) :
        /\ tasks[id].status = "failed"
        /\ tasks[id].retries = 1
        /\ taskResults[id].error = "Task timed out"
        /\ tasks[id].error = "Task timed out"

====
